---- MODULE Spec2Model ----
(***************************************************************************)
(* The action-execution loop of APISandboxAgent                            *)
(* (src/os_computer_use/api_agent.py): execute_single_step and             *)
(* run_with_tracking, driven by a nondeterministic Decision Oracle         *)
(* (action_model.call) and Tool Executor (the inherited call_function),    *)
(* together with the /act and /reset endpoints of src/api_server.py that   *)
(* call them.                                                              *)
(*                                                                         *)
(* Texts are sequences of string fragments, so that an f-string is a       *)
(* concatenation: f"Error: {e}" is <<"Error: ">> \o e.  A parameter        *)
(* mapping is a sequence of <<key, value>> pairs; {} is <<>>.              *)
(***************************************************************************)
EXTENDS Integers, Sequences, FiniteSets, TLC

VARIABLES
  messages,                \* self.messages, the conversation
  tracked_actions,         \* self.tracked_actions
  call_function,           \* self.call_function: number of tracking wrappers around the inherited executor
  pc,                      \* "idle": no call in progress; "loop": inside run_with_tracking's while loop
  original_call_function,  \* run_with_tracking local
  stop_detected,           \* run_with_tracking local
  should_continue,         \* run_with_tracking local
  iteration_count,         \* run_with_tracking local
  tool_calls,              \* the proposals of the latest Oracle reply
  oracle_calls,            \* history: action_model.call invocations of the current/latest operation
  executor_calls,          \* history: tool calls that reached the inherited executor in the current/latest operation
  turn_start,              \* history: Len(executor_calls) when the latest turn began
  oracle_replies,          \* history: Oracle consultations since construction, capped at MaxFreeReplies
  ret,                     \* what the latest operation returned (or that it raised)
  demo_progress,           \* DemoAgent.demo_progress
  execution_log,           \* DemoOrchestrator.execution_log
  use_hybrid_approach,     \* DemoOrchestrator.use_hybrid_approach
  workflow,                \* run_full_demo's position: its step list, the step and the attempt in progress
  demo_ret,                \* what the latest DemoAgent / DemoOrchestrator call returned
  validation,              \* a step name and an answer, and how the attempt classified them
  demo_sessions,           \* api_server.demo_sessions: session id -> the entry stored under it
  session_objects,         \* the DemoAgent / DemoOrchestrator pairs created, in creation order
  tasks,                   \* the run_demo_background tasks, in creation order
  now,                     \* the wall clock, in ticks
  meeting_status,          \* MeetingService.meeting_status
  current_meet_url,        \* MeetingService.current_meet_url
  meeting_log,             \* MeetingService.meeting_log, the status of each entry
  meeting_ret,             \* what the latest MeetingService call returned
  rate_limit_storage,      \* api_server.rate_limit_storage: client -> the timestamps kept
  admitted,                \* history: client -> the times of all its admitted requests
  rate_ret,                \* what the latest rate-limited call returned
  status_pending           \* clients whose GET /status is between its two locked sections

agentVars == <<messages, tracked_actions, call_function, pc, original_call_function,
               stop_detected, should_continue, iteration_count, tool_calls,
               oracle_calls, executor_calls, turn_start, oracle_replies, ret>>

demoVars == <<demo_progress, execution_log, use_hybrid_approach, workflow, demo_ret>>

\* the session registry of api_server.py and the objects it refers to
sessionVars == <<demo_sessions, session_objects, tasks, now>>

\* a MeetingService
meetingVars == <<meeting_status, current_meet_url, meeting_log, meeting_ret>>

\* the rate limiter of api_server.py
rateVars == <<rate_limit_storage, admitted, rate_ret, status_pending>>

vars == <<agentVars, demoVars, validation, sessionVars, meetingVars, rateVars>>

----------------------------------------------------------------------------
(* Program constant and model bounds *)

max_iterations == 20

\* longest list of proposals the Oracle returns in one turn
MaxTurnLen == 3
\* number of Oracle consultations (since construction) whose reply is unrestricted
MaxFreeReplies == 1
\* a new request is only issued while the conversation holds fewer messages than this
MaxHistory == 4
\* a call on a demo agent or orchestrator is only issued while the execution
\* log holds at most this many entries
MaxLogAtCall == 3
\* direct calls of the agent's methods are only issued while they leave at
\* most this many completed steps
MaxCompleted == 2
\* the collaborators let at most this many attempts of one workflow run fail
MaxFailures == 3
\* a MeetingService operation is only called while the service's log holds
\* at most this many entries
MaxMeetingLog == 6
\* the clock is read at this many instants of a second
TicksPerSecond == 2
\* the last tick of the clock
MaxClock == 2
\* failed attempts in the execution logs of all sessions together
MaxSessionFailures == 1
\* int(os.getenv("RATE_LIMIT_PER_MINUTE", "10")): the limit is read from the
\* environment; the rate limiter is run with a small one
RATE_LIMIT_PER_MINUTE == 2

Instructions == {<<"a">>, <<"b">>}

----------------------------------------------------------------------------
(* Values *)

Timestamp == "isoformat"

Click == [name |-> "click", parameters |-> << <<"x", "1">> >>]
TypeText == [name |-> "type", parameters |-> << <<"text", "hello">> >>]
Stop == [name |-> "stop", parameters |-> <<>>]
ToolCalls == {Click, TypeText, Stop}

Message(content) == [role |-> "user", content |-> content]

RECURSIVE FlattenParams(_)
FlattenParams(ps) ==
  IF ps = <<>> THEN <<>> ELSE <<ps[1][1], ps[1][2]>> \o FlattenParams(Tail(ps))

\* json.dumps(tool_call)
JsonDumps(tool_call) == <<"{", tool_call.name>> \o FlattenParams(tool_call.parameters) \o <<"}">>

ObjectiveText(instruction) == <<"OBJECTIVE: ">> \o instruction
ThoughtText(content) == <<"THOUGHT: ">> \o content
\* mutant: the observation message without the executor's result
ObservationWithoutResult(result) == <<"OBSERVATION: ">>

ObservationText(result) == <<"OBSERVATION: ">> \o result

----------------------------------------------------------------------------
(* The collaborators' answers, supplied to each step as an input record:   *)
(*   oracle_fault  the Oracle call (or set_timeout / the screenshot before *)
(*                 it) raises                                              *)
(*   content       the rationale text, <<>> when the Oracle gives none     *)
(*   tool_calls    the ordered proposals                                   *)
(*   obs           the observation the executor returns in this turn       *)
(*   fault_at      index of the tool call at which the executor raises,    *)
(*                 0 when it does not                                      *)

OracleError == <<"oracle unavailable">>
ExecutorError == <<"executor crashed">>
Observations == {<<"ok">>, <<"failed">>}

\* the k-th action of a turn that is not the termination token is a click
\* for odd k and a type for even k
RECURSIVE Scripted(_, _)
Scripted(p, k) ==
  IF p = <<>> THEN TRUE
  ELSE IF p[1] = Stop THEN Scripted(Tail(p), k)
  ELSE p[1] = (IF k % 2 = 1 THEN Click ELSE TypeText) /\ Scripted(Tail(p), k + 1)

Proposals ==
  {p \in UNION {[1..n -> ToolCalls] : n \in 0..MaxTurnLen} : Scripted(p, 1)}

OracleFaultInput ==
  [oracle_fault |-> TRUE, content |-> <<>>, tool_calls |-> <<>>,
   obs |-> <<"ok">>, fault_at |-> 0]

FreeInputs ==
  {OracleFaultInput} \cup
  {i \in [oracle_fault : {FALSE}, content : {<<>>, <<"thinking">>},
          tool_calls : Proposals, obs : Observations, fault_at : 0..MaxTurnLen] :
     i.fault_at <= Len(i.tool_calls)}

\* the one reply that keeps a run going once the free replies are used up
KeepGoingInput ==
  [oracle_fault |-> FALSE, content |-> <<>>, tool_calls |-> <<Click>>,
   obs |-> <<"ok">>, fault_at |-> 0]

\* the replies offered in the turn that reaches the iteration cap
CapInputs ==
  {OracleFaultInput} \cup
  {i \in [oracle_fault : {FALSE}, content : {<<>>},
          tool_calls : {<<>>, <<Click>>, <<Stop>>, <<Click, Stop>>},
          obs : {<<"ok">>}, fault_at : 0..1] :
     i.fault_at <= Len(i.tool_calls) /\ (i.fault_at = 1 => i.tool_calls[1] # Stop)}

Inputs(replies, iteration) ==
  IF replies < MaxFreeReplies THEN FreeInputs
  ELSE IF iteration = max_iterations THEN CapInputs
  ELSE {KeepGoingInput}

\* the inherited SandboxAgent.call_function: returns an observation or raises
BaseCallFunction(inp, i) ==
  [raised |-> (inp.fault_at = i), exc |-> ExecutorError, result |-> inp.obs]

----------------------------------------------------------------------------
(* tracked_call_function and self.call_function *)

\* action_data of tracked_call_function: "completed" is set for stop only
ActionData(name, arguments, result) ==
  IF name = "stop"
  THEN [action |-> name, parameters |-> arguments, result |-> result,
        timestamp |-> Timestamp, completed |-> TRUE]
  ELSE [action |-> name, parameters |-> arguments, result |-> result,
        timestamp |-> Timestamp]

\* mutant: the wrapper keeps no record of a "type" action
InvokeSkipsTyping(fn, name, arguments, base, tracked) ==
  [raised |-> base.raised, exc |-> base.exc, result |-> base.result,
   tracked |-> IF fn = 0 \/ base.raised \/ name = "type" THEN tracked
               ELSE Append(tracked, ActionData(name, arguments, base.result)),
   stop |-> (fn > 0 /\ ~base.raised /\ name = "stop")]

\* self.call_function(name, arguments) when self.call_function is fn wrappers
\* deep: every wrapper calls the function it wraps and then appends its record
RECURSIVE Invoke(_, _, _, _, _)
Invoke(fn, name, arguments, base, tracked) ==
  IF fn = 0
  THEN [raised |-> base.raised, exc |-> base.exc, result |-> base.result,
        tracked |-> tracked, stop |-> FALSE]
  ELSE LET inner == Invoke(fn - 1, name, arguments, base, tracked)
       IN  IF inner.raised THEN inner
           ELSE [inner EXCEPT !.tracked = Append(@, ActionData(name, arguments, inner.result)),
                              !.stop = (name = "stop")]

----------------------------------------------------------------------------
(* execute_single_step *)

AppendObjectiveIfNew(msgs, instruction) ==
  IF msgs = <<>> THEN <<Message(ObjectiveText(instruction))>>
  ELSE IF msgs[Len(msgs)].content # ObjectiveText(instruction)
       THEN Append(msgs, Message(ObjectiveText(instruction)))
       ELSE msgs

\* mutant: the rationale overwrites the latest message instead of following it
ThoughtReplacesLast(msgs, content) ==
  IF content # <<>>
  THEN SubSeq(msgs, 1, Len(msgs) - 1) \o <<Message(ThoughtText(content))>>
  ELSE msgs

AppendThought(msgs, content) ==
  IF content # <<>> THEN Append(msgs, Message(ThoughtText(content))) ELSE msgs

\* mutant: the last proposal taken instead of the first
LastToolCall(calls) == calls[Len(calls)]

FirstToolCall(calls) == calls[1]

\* mutant: the wrong token taken for the termination token
IsStopWrongToken(name) == name = "done"

IsStop(name) == name = "stop"

StepOutcome(action, parameters, result, completed) ==
  [action |-> action, parameters |-> parameters, result |-> result,
   completed |-> completed, timestamp |-> Timestamp]

NoOutcome == StepOutcome("", <<>>, <<>>, FALSE)

\* the try block of execute_single_step
SingleStepTry(msgs, tracked, fn, instruction, inp) ==
  LET m1 == AppendObjectiveIfNew(msgs, instruction)
      t0 == [raised |-> FALSE, exc |-> <<>>, messages |-> m1, tracked |-> tracked,
             outcome |-> NoOutcome, calls |-> <<>>]
  IN
  IF inp.oracle_fault
  THEN [t0 EXCEPT !.raised = TRUE, !.exc = OracleError]
  ELSE
    LET m2 == AppendThought(m1, inp.content) IN
    IF inp.tool_calls # <<>>
    THEN
      LET tool_call == FirstToolCall(inp.tool_calls)
          name == tool_call.name
          parameters == tool_call.parameters
      IN
      IF ~IsStop(name)
      THEN
        LET m3 == Append(m2, Message(JsonDumps(tool_call)))
            r == Invoke(fn, name, parameters, BaseCallFunction(inp, 1), tracked)
        IN
        IF r.raised
        THEN [t0 EXCEPT !.raised = TRUE, !.exc = r.exc, !.messages = m3,
                        !.calls = <<[call |-> tool_call, ok |-> FALSE]>>]
        ELSE [t0 EXCEPT !.messages = Append(m3, Message(ObservationText(r.result))),
                        !.tracked = r.tracked,
                        !.calls = <<[call |-> tool_call, ok |-> TRUE]>>,
                        !.outcome = StepOutcome(name, parameters, r.result, FALSE)]
      ELSE [t0 EXCEPT !.messages = m2,
                      !.outcome = StepOutcome("stop", <<>>, <<"Task completed">>, TRUE)]
    ELSE [t0 EXCEPT !.messages = m2,
                    !.outcome = StepOutcome("none", <<>>, <<"No action determined">>, FALSE)]

\* mutant: the except clause catches the Oracle's error type only
SingleStepExceptOracleOnly(t) ==
  IF t.raised /\ t.exc = OracleError
  THEN [t EXCEPT !.raised = FALSE,
                 !.outcome = StepOutcome("error", <<>>, <<"Error: ">> \o t.exc, FALSE)]
  ELSE t

\* the except clause of execute_single_step
SingleStepExcept(t) ==
  IF t.raised
  THEN [t EXCEPT !.raised = FALSE,
                 !.outcome = StepOutcome("error", <<>>, <<"Error: ">> \o t.exc, FALSE)]
  ELSE t

Bump(n) == IF n < MaxFreeReplies THEN n + 1 ELSE n

\* POST /act with single_step=true: one execute_single_step call
execute_single_step(instruction, inp) ==
  /\ pc = "idle"
  /\ Len(messages) < MaxHistory
  /\ LET body == SingleStepTry(messages, tracked_actions, call_function, instruction, inp)
         t == SingleStepExcept(body)
     IN  /\ messages' = t.messages
         /\ tracked_actions' = t.tracked
         /\ executor_calls' = t.calls
         /\ ret' = [op |-> "step", instruction |-> instruction, raised |-> t.raised,
                    fault |-> body.raised,
                    value |-> t.outcome]
  /\ tool_calls' = inp.tool_calls
  /\ oracle_calls' = 1
  /\ turn_start' = 0
  /\ oracle_replies' = Bump(oracle_replies)
  /\ UNCHANGED <<call_function, pc, original_call_function, stop_detected,
                 should_continue, iteration_count>>
  /\ UNCHANGED <<demoVars, validation, sessionVars, meetingVars, rateVars>>

----------------------------------------------------------------------------
(* run_with_tracking *)

\* mutant: the cap compared with <= lets one more iteration through
LoopConditionInclusive(sc, count) == sc /\ count <= max_iterations

\* while should_continue and iteration_count < max_iterations
LoopCondition(sc, count) == sc /\ count < max_iterations

\* should_continue = name != "stop"
ShouldContinue(name) == name # "stop"

\* mutant: continue instead of break
BreakTargetContinue(calls, i) == i + 1

\* the break of the for loop: the index the loop goes on with after the
\* termination token at index i
BreakTarget(calls, i) == Len(calls) + 1

\* the for loop over the turn's tool calls, from index i on; st carries the
\* conversation, the tracked list, the two flags, the executor calls made
\* and whether a call raised
RECURSIVE ForLoop(_, _, _, _, _)
ForLoop(calls, i, inp, fn, st) ==
  IF i > Len(calls) THEN st
  ELSE
    LET tool_call == calls[i]
        name == tool_call.name
        parameters == tool_call.parameters
    IN
    IF ~ShouldContinue(name)
    THEN ForLoop(calls, BreakTarget(calls, i), inp, fn,
                 [st EXCEPT !.should_continue = FALSE, !.stop_detected = TRUE])
    ELSE
      LET m == Append(st.messages, Message(JsonDumps(tool_call)))
          r == Invoke(fn, name, parameters, BaseCallFunction(inp, i), st.tracked)
      IN
      IF r.raised
      THEN [st EXCEPT !.should_continue = TRUE, !.messages = m, !.raised = TRUE,
                      !.exc = r.exc,
                      !.calls = Append(@, [call |-> tool_call, ok |-> FALSE])]
      ELSE ForLoop(calls, i + 1, inp, fn,
                   [st EXCEPT !.should_continue = TRUE,
                              !.messages = Append(m, Message(ObservationText(r.result))),
                              !.tracked = r.tracked,
                              !.stop_detected = (@ \/ r.stop),
                              !.calls = Append(@, [call |-> tool_call, ok |-> TRUE])])

\* one iteration of the while loop, after iteration_count += 1
LoopBody(msgs, tracked, fn, stop, calls, inp) ==
  LET st0 == [messages |-> msgs, tracked |-> tracked, should_continue |-> FALSE,
              stop_detected |-> stop, raised |-> FALSE, exc |-> <<>>, calls |-> calls]
  IN
  IF inp.oracle_fault
  THEN [st0 EXCEPT !.should_continue = TRUE, !.raised = TRUE, !.exc = OracleError]
  ELSE ForLoop(inp.tool_calls, 1, inp, fn,
               [st0 EXCEPT !.messages = AppendThought(msgs, inp.content)])

TimeoutOutcome ==
  [action |-> "timeout",
   parameters |-> << <<"max_iterations", ToString(max_iterations)>> >>,
   result |-> <<"Task stopped after ", ToString(max_iterations),
                " iterations without completion">>,
   timestamp |-> Timestamp, completed |-> FALSE]

\* mutant: the timeout entry appended whether or not the token was detected
AppendTimeoutAtCap(tracked, count, stop) ==
  IF count >= max_iterations THEN Append(tracked, TimeoutOutcome) ELSE tracked

\* if iteration_count >= max_iterations and not stop_detected: append timeout
AppendTimeout(tracked, count, stop) ==
  IF count >= max_iterations /\ ~stop THEN Append(tracked, TimeoutOutcome) ELSE tracked

ErrorOutcome(exc) ==
  [action |-> "error", parameters |-> <<>>, result |-> exc,
   timestamp |-> Timestamp, completed |-> FALSE]

\* mutant: the except clause replaces the list instead of appending to it
RunExceptDropsOutcomes(tracked, exc) == <<ErrorOutcome(exc)>>

\* the except clause: self.tracked_actions.append({... "error" ...})
RunExcept(tracked, exc) == Append(tracked, ErrorOutcome(exc))

\* mutant: the executor restored after the loop instead of in a finally clause
RestoreOnNormalExitOnly(path, original, current) ==
  IF path = "normal" THEN original ELSE current

\* the finally clause, on the exit path "normal" or "error"
RestoreOnExit(path, original, current) == original

HasAction(actions, a) == \E k \in 1..Len(actions) : actions[k].action = a

\* execute_action (POST /act), multi-step branch: the completion reason
CompletionReason(actions_taken, completed) ==
  IF completed THEN "stop_tool_called"
  ELSE IF HasAction(actions_taken, "timeout") THEN "max_iterations_reached"
  ELSE IF HasAction(actions_taken, "error") THEN "error_occurred"
  ELSE "unknown"

RunReturn(instruction, tracked, completed, fault) ==
  [op |-> "run", instruction |-> instruction, raised |-> FALSE, fault |-> fault,
   value |-> [completed |-> completed,
              completion_reason |-> CompletionReason(tracked, completed)]]

\* POST /act with single_step=false: run_with_tracking up to the while loop
RunStart(instruction) ==
  /\ pc = "idle"
  /\ Len(messages) < MaxHistory
  /\ tracked_actions' = <<>>
  /\ stop_detected' = FALSE
  /\ iteration_count' = 0
  /\ original_call_function' = call_function
  /\ call_function' = call_function + 1
  /\ messages' = Append(messages, Message(ObjectiveText(instruction)))
  /\ should_continue' = TRUE
  /\ pc' = "loop"
  /\ tool_calls' = <<>>
  /\ oracle_calls' = 0
  /\ executor_calls' = <<>>
  /\ turn_start' = 0
  /\ ret' = [op |-> "running", instruction |-> instruction, raised |-> FALSE,
             fault |-> FALSE, value |-> <<>>]
  /\ UNCHANGED oracle_replies
  /\ UNCHANGED <<demoVars, validation, sessionVars, meetingVars, rateVars>>

\* one iteration of the while loop; a fault inside it runs the except and
\* finally clauses and returns
Turn(inp) ==
  /\ pc = "loop"
  /\ LoopCondition(should_continue, iteration_count)
  /\ inp \in Inputs(oracle_replies, iteration_count + 1)
  /\ iteration_count' = iteration_count + 1
  /\ oracle_calls' = oracle_calls + 1
  /\ oracle_replies' = Bump(oracle_replies)
  /\ tool_calls' = inp.tool_calls
  /\ turn_start' = Len(executor_calls)
  /\ LET st == LoopBody(messages, tracked_actions, call_function, stop_detected,
                        executor_calls, inp)
     IN  /\ messages' = st.messages
         /\ executor_calls' = st.calls
         /\ stop_detected' = st.stop_detected
         /\ should_continue' = st.should_continue
         /\ IF st.raised
            THEN /\ tracked_actions' = RunExcept(st.tracked, st.exc)
                 /\ call_function' = RestoreOnExit("error", original_call_function, call_function)
                 /\ pc' = "idle"
                 /\ ret' = RunReturn(ret.instruction, tracked_actions', FALSE, TRUE)
            ELSE /\ tracked_actions' = st.tracked
                 /\ UNCHANGED <<call_function, pc, ret>>
  /\ UNCHANGED original_call_function
  /\ UNCHANGED <<demoVars, validation, sessionVars, meetingVars, rateVars>>

\* the loop has ended: completion status, timeout entry, finally, return
Finish ==
  /\ pc = "loop"
  /\ ~LoopCondition(should_continue, iteration_count)
  /\ tracked_actions' = AppendTimeout(tracked_actions, iteration_count, stop_detected)
  /\ call_function' = RestoreOnExit("normal", original_call_function, call_function)
  /\ pc' = "idle"
  /\ ret' = RunReturn(ret.instruction, tracked_actions', stop_detected, FALSE)
  /\ UNCHANGED <<messages, original_call_function, stop_detected, should_continue,
                 iteration_count, tool_calls, oracle_calls, executor_calls,
                 turn_start, oracle_replies>>
  /\ UNCHANGED <<demoVars, validation, sessionVars, meetingVars, rateVars>>

\* POST /reset: agent.messages = []
reset_agent ==
  /\ pc = "idle"
  /\ messages # <<>>
  /\ Len(messages) < MaxHistory
  /\ messages' = <<>>
  /\ ret' = [op |-> "reset", instruction |-> <<>>, raised |-> FALSE,
             fault |-> FALSE, value |-> <<>>]
  /\ UNCHANGED <<tracked_actions, call_function, pc, original_call_function,
                 stop_detected, should_continue, iteration_count, tool_calls,
                 oracle_calls, executor_calls, turn_start, oracle_replies>>
  /\ UNCHANGED <<demoVars, validation, sessionVars, meetingVars, rateVars>>

----------------------------------------------------------------------------
(* The demo workflow: DemoAgent (src/os_computer_use/demo_agent.py), which *)
(* extends APISandboxAgent, and DemoOrchestrator                           *)
(* (src/os_computer_use/demo_orchestrator.py).                             *)
(*                                                                         *)
(* The texts the step validator inspects are sequences of one-character    *)
(* strings, so that lower() and the substring test `indicator in text`     *)
(* are computed character by character.                                    *)

UpperCase ==
  <<"A", "B", "C", "D", "E", "F", "G", "H", "I", "J", "K", "L", "M",
    "N", "O", "P", "Q", "R", "S", "T", "U", "V", "W", "X", "Y", "Z">>
LowerCase ==
  <<"a", "b", "c", "d", "e", "f", "g", "h", "i", "j", "k", "l", "m",
    "n", "o", "p", "q", "r", "s", "t", "u", "v", "w", "x", "y", "z">>

\* mutant: the text is inspected as it is
LowerIdentity(text) == text

\* str.lower()
Lower(text) ==
  [i \in 1..Len(text) |->
     IF \E k \in 1..Len(UpperCase) : UpperCase[k] = text[i]
     THEN LowerCase[CHOOSE k \in 1..Len(UpperCase) : UpperCase[k] = text[i]]
     ELSE text[i]]

\* `indicator in text` on strings
In(indicator, text) ==
  \E i \in 1..(Len(text) - Len(indicator) + 1) :
    SubSeq(text, i, i + Len(indicator) - 1) = indicator

\* any(indicator in text for indicator in indicators)
AnyIn(indicators, text) ==
  \E k \in 1..Len(indicators) : In(indicators[k], text)

\* the items of str(dict): 'key': 'value', separated by ", "
RECURSIVE StrItems(_)
StrItems(ps) ==
  IF ps = <<>> THEN <<>>
  ELSE <<"'">> \o ps[1][1] \o <<"'", ":", " ", "'">> \o ps[1][2] \o <<"'">>
       \o (IF Len(ps) > 1 THEN <<",", " ">> ELSE <<>>) \o StrItems(Tail(ps))

\* str(parameters) of a mapping of texts
StrDict(ps) == <<"{">> \o StrItems(ps) \o <<"}">>

\* dict.get(key, default)
Get(d, key, default) == IF key \in DOMAIN d THEN d[key] ELSE default

\* the indicator lists of _validate_step_success, one per branch; the second
\* join_meet_call and start_screen_share branches are shadowed by the first
Indicators ==
  [navigate_to_meet |->
     <<
        <<"m", "e", "e", "t", ".", "g", "o", "o", "g", "l", "e", ".", "c",
          "o", "m">>,
        <<"g", "o", "o", "g", "l", "e", " ", "m", "e", "e", "t">>,
        <<"j", "o", "i", "n">>,
        <<"m", "e", "e", "t", "i", "n", "g">>,
        <<"n", "a", "v", "i", "g", "a", "t", "e", "d">>,
        <<"l", "o", "a", "d", "e", "d">>
     >>,
   join_meet_call |->
     <<
        <<"j", "o", "i", "n", "e", "d">>,
        <<"m", "e", "e", "t", "i", "n", "g">>,
        <<"p", "a", "r", "t", "i", "c", "i", "p", "a", "n", "t", "s">>,
        <<"i", "n", " ", "c", "a", "l", "l">>,
        <<"c", "a", "m", "e", "r", "a">>,
        <<"m", "i", "c", "r", "o", "p", "h", "o", "n", "e">>,
        <<"p", "r", "e", "s", "e", "n", "t">>
     >>,
   start_screen_share |->
     <<
        <<"s", "h", "a", "r", "i", "n", "g">>,
        <<"s", "c", "r", "e", "e", "n">>,
        <<"p", "r", "e", "s", "e", "n", "t">>,
        <<"p", "r", "e", "s", "e", "n", "t", "i", "n", "g">>,
        <<"s", "h", "a", "r", "e", "d">>
     >>,
   open_terminal |->
     <<
        <<"t", "e", "r", "m", "i", "n", "a", "l">>,
        <<"c", "o", "m", "m", "a", "n", "d", " ", "p", "r", "o", "m", "p",
          "t">>,
        <<"s", "h", "e", "l", "l">>,
        <<"$">>,
        <<"u", "s", "e", "r", "@">>,
        <<"o", "p", "e", "n", "e", "d">>
     >>,
   clone_run_command |->
     <<
        <<"c", "l", "o", "n", "i", "n", "g", " ", "i", "n", "t", "o">>,
        <<"c", "l", "o", "n", "e">>,
        <<"d", "o", "n", "e">>,
        <<"c", "o", "m", "p", "l", "e", "t", "e">>,
        <<"s", "u", "c", "c", "e", "s", "s">>,
        <<"r", "e", "c", "e", "i", "v", "i", "n", "g", " ", "o", "b", "j",
          "e", "c", "t", "s">>,
        <<"r", "e", "s", "o", "l", "v", "i", "n", "g", " ", "d", "e", "l",
          "t", "a", "s">>
     >>,
   clone_typed |->
     <<
        <<"c", "l", "o", "n", "i", "n", "g">>,
        <<"c", "l", "o", "n", "e">>,
        <<"t", "y", "p", "e", "d">>,
        <<"e", "n", "t", "e", "r", "e", "d">>,
        <<"p", "r", "e", "s", "s", "e", "d">>
     >>,
   clone_other |->
     <<
        <<"c", "l", "o", "n", "i", "n", "g">>,
        <<"c", "l", "o", "n", "e">>,
        <<"d", "o", "n", "e">>,
        <<"c", "o", "m", "p", "l", "e", "t", "e">>,
        <<"s", "u", "c", "c", "e", "s", "s">>
     >>,
   navigate_typed |->
     <<
        <<"c", "h", "a", "n", "g", "e", "d">>,
        <<"d", "i", "r", "e", "c", "t", "o", "r", "y">>,
        <<"m", "o", "v", "e", "d">>,
        <<"c", "d">>,
        <<"t", "y", "p", "e", "d">>,
        <<"p", "r", "e", "s", "s", "e", "d">>
     >>,
   navigate_other |->
     <<
        <<"c", "h", "a", "n", "g", "e", "d">>,
        <<"d", "i", "r", "e", "c", "t", "o", "r", "y">>,
        <<"m", "o", "v", "e", "d">>,
        <<"c", "d">>
     >>,
   open_code_viewer |->
     <<
        <<"c", "o", "d", "e">>,
        <<"v", "s", " ", "c", "o", "d", "e">>,
        <<"v", "s", "c", "o", "d", "e">>,
        <<"o", "p", "e", "n", "e", "d">>,
        <<"f", "i", "l", "e", "s">>,
        <<"l", "i", "s", "t", "e", "d">>,
        <<"e", "d", "i", "t", "o", "r">>
     >>,
   open_browser |->
     <<
        <<"b", "r", "o", "w", "s", "e", "r">>,
        <<"f", "i", "r", "e", "f", "o", "x">>,
        <<"c", "h", "r", "o", "m", "e">>,
        <<"o", "p", "e", "n", "e", "d">>,
        <<"l", "a", "u", "n", "c", "h", "e", "d">>,
        <<"w", "e", "b">>
     >>,
   join_meet_call_shadowed |->
     <<
        <<"m", "e", "e", "t">>,
        <<"j", "o", "i", "n", "e", "d">>,
        <<"c", "a", "l", "l">>,
        <<"c", "o", "n", "n", "e", "c", "t", "e", "d">>,
        <<"g", "u", "e", "s", "t">>,
        <<"v", "i", "d", "e", "o">>
     >>,
   start_screen_share_shadowed |->
     <<
        <<"s", "c", "r", "e", "e", "n">>,
        <<"s", "h", "a", "r", "i", "n", "g">>,
        <<"p", "r", "e", "s", "e", "n", "t">>,
        <<"s", "h", "a", "r", "e">>,
        <<"s", "t", "a", "r", "t", "e", "d">>
     >>,
   wait_for_instructions |->
     <<
        <<"w", "a", "i", "t", "i", "n", "g">>,
        <<"r", "e", "a", "d", "y">>,
        <<"c", "o", "m", "p", "l", "e", "t", "e">>,
        <<"a", "c", "t", "i", "v", "e">>
     >>,
   default |->
     <<
        <<"s", "u", "c", "c", "e", "s", "s">>,
        <<"c", "o", "m", "p", "l", "e", "t", "e">>,
        <<"d", "o", "n", "e">>,
        <<"f", "i", "n", "i", "s", "h", "e", "d">>,
        <<"o", "p", "e", "n", "e", "d">>,
        <<"s", "t", "a", "r", "t", "e", "d">>
     >>]

\* the command texts looked for in str(parameters) and the failure markers
\* looked for in the result text
Command ==
  [git_clone |-> <<"g", "i", "t", " ", "c", "l", "o", "n", "e">>,
   cd |-> <<"c", "d", " ">>,
   error |-> <<"e", "r", "r", "o", "r">>,
   not_found |-> <<"n", "o", "t", " ", "f", "o", "u", "n", "d">>]

\* the clone_repository branch of _validate_step_success
ValidateCloneRepository(action, result, result_text) ==
  IF action = "run_command" /\ In(Command.git_clone, StrDict(Get(result, "parameters", <<>>)))
  THEN AnyIn(Indicators.clone_run_command, result_text)
  ELSE IF action \in {"type_text", "send_key"} \/ Get(result, "follow_up_action", "") # ""
  THEN
    IF In(Command.git_clone, StrDict(Get(result, "parameters", <<>>)))
       \/ Get(result, "follow_up_action", "") = "send_key"
    THEN TRUE
    ELSE AnyIn(Indicators.clone_typed, result_text)
  ELSE AnyIn(Indicators.clone_other, result_text)

\* the navigate_to_repo branch of _validate_step_success
ValidateNavigateToRepo(action, result, result_text) ==
  IF action = "run_command" /\ In(Command.cd, StrDict(Get(result, "parameters", <<>>)))
  THEN ~In(Command.error, result_text) /\ ~In(Command.not_found, result_text)
  ELSE IF action \in {"type_text", "send_key"} \/ Get(result, "follow_up_action", "") # ""
  THEN
    IF In(Command.cd, StrDict(Get(result, "parameters", <<>>)))
       \/ Get(result, "follow_up_action", "") = "send_key"
    THEN TRUE
    ELSE AnyIn(Indicators.navigate_typed, result_text)
  ELSE AnyIn(Indicators.navigate_other, result_text)

\* DemoOrchestrator._validate_step_success
validate_step_success(step_name, result) ==
  LET action == Get(result, "action", "")
      result_text == Lower(Get(result, "result", <<>>))
  IN
  IF Get(result, "completed", FALSE) THEN TRUE
  ELSE IF step_name = "run_setup_script"
    THEN Get(result, "verification", "") = "success"
  ELSE IF step_name = "navigate_to_meet"
    THEN AnyIn(Indicators.navigate_to_meet, result_text)
  ELSE IF step_name = "join_meet_call"
    THEN AnyIn(Indicators.join_meet_call, result_text)
  ELSE IF step_name = "start_screen_share"
    THEN AnyIn(Indicators.start_screen_share, result_text)
  ELSE IF step_name = "open_terminal"
    THEN AnyIn(Indicators.open_terminal, result_text)
  ELSE IF step_name = "clone_repository"
    THEN ValidateCloneRepository(action, result, result_text)
  ELSE IF step_name = "navigate_to_repo"
    THEN ValidateNavigateToRepo(action, result, result_text)
  ELSE IF step_name = "open_code_viewer"
    THEN AnyIn(Indicators.open_code_viewer, result_text)
  ELSE IF step_name = "open_browser"
    THEN AnyIn(Indicators.open_browser, result_text)
  ELSE IF step_name = "join_meet_call"
    THEN AnyIn(Indicators.join_meet_call_shadowed, result_text)
  ELSE IF step_name = "start_screen_share"
    THEN AnyIn(Indicators.start_screen_share_shadowed, result_text)
  ELSE IF step_name = "wait_for_instructions"
    THEN AnyIn(Indicators.wait_for_instructions, result_text)
  ELSE AnyIn(Indicators.default, result_text)

----------------------------------------------------------------------------
(* DemoAgent: the session progress and the step with verification *)

\* step_name in steps
Contains(steps, step_name) == \E k \in 1..Len(steps) : steps[k] = step_name

MAX_RETRIES_PER_STEP == 3

\* DemoConfig's error-handling settings
CONTINUE_ON_NON_CRITICAL_ERRORS == TRUE

CRITICAL_STEPS == <<"clone_repository", "join_meet_call">>

\* DemoConfig.is_critical_step
is_critical_step(step_name) == Contains(CRITICAL_STEPS, step_name)

HybridSteps ==
  <<"run_setup_script", "navigate_to_meet", "join_meet_call",
    "start_screen_share", "wait_for_instructions">>

LegacySteps ==
  <<"open_terminal", "clone_repository", "navigate_to_repo", "open_code_viewer",
    "open_browser", "join_meet_call", "start_screen_share", "wait_for_instructions">>

\* demo_progress as DemoAgent.__init__ leaves it
ConstructedProgress ==
  [total_steps |-> 5, completed_steps |-> <<>>, current_step_index |-> 0,
   status |-> "initialized"]

\* mutant: the progress is replaced before the URLs are validated
InitializeResetsThenValidates(progress, valid) ==
  [raised |-> ~valid,
   progress |-> [total_steps |-> 8, completed_steps |-> <<>>,
                 current_step_index |-> 0, status |-> "running"]]

\* initialize_demo_session: raises ValueError when validate_inputs rejects
\* the URLs, otherwise replaces demo_progress
InitializeDemoSession(progress, valid) ==
  IF ~valid
  THEN [raised |-> TRUE, progress |-> progress]
  ELSE [raised |-> FALSE,
        progress |-> [total_steps |-> 8, completed_steps |-> <<>>,
                      current_step_index |-> 0, status |-> "running"]]

\* mutant: the name put in front of the completed steps
MarkStepPrepends(progress, step_name, success) ==
  IF success /\ ~Contains(progress.completed_steps, step_name)
  THEN [progress EXCEPT !.completed_steps = <<step_name>> \o @,
                        !.current_step_index = Len(progress.completed_steps) + 1]
  ELSE progress

\* DemoAgent.mark_step_completed
MarkStepCompleted(progress, step_name, success) ==
  IF success /\ ~Contains(progress.completed_steps, step_name)
  THEN [progress EXCEPT !.completed_steps = Append(@, step_name),
                        !.current_step_index = Len(progress.completed_steps) + 1]
  ELSE progress

\* DemoAgent.is_demo_complete
is_demo_complete(progress) == Len(progress.completed_steps) >= progress.total_steps

\* the messages of run_setup_script and execute_step_with_verification;
\* failed_tasks and fault stand for str(failed_tasks) and str(e)
SetupText ==
  [completed |->
     <<"S", "e", "t", "u", "p", " ", "s", "c", "r", "i", "p", "t", " ", "c",
       "o", "m", "p", "l", "e", "t", "e", "d", " ", "s", "u", "c", "c", "e",
       "s", "s", "f", "u", "l", "l", "y">>,
   failed |->
     <<"S", "e", "t", "u", "p", " ", "s", "c", "r", "i", "p", "t", " ", "f",
       "a", "i", "l", "e", "d", ".", " ", "F", "a", "i", "l", "e", "d", " ",
       "t", "a", "s", "k", "s", ":", " ">>,
   error |->
     <<"S", "e", "t", "u", "p", " ", "s", "c", "r", "i", "p", "t", " ", "e",
       "r", "r", "o", "r", ":", " ">>,
   failed_tasks |->
     <<"[", "'", "c", "l", "o", "n", "e", "_", "r", "e", "p", "o", "s", "i",
       "t", "o", "r", "y", "'", "]">>,
   fault |->
     <<"s", "a", "n", "d", "b", "o", "x", " ", "c", "l", "o", "s", "e", "d">>,
   no_url |->
     <<"E", "r", "r", "o", "r", ":", " ", "N", "o", " ", "G", "i", "t", "H",
       "u", "b", " ", "U", "R", "L", " ", "f", "o", "u", "n", "d", " ", "i",
       "n", " ", "i", "n", "s", "t", "r", "u", "c", "t", "i", "o", "n">>]

\* DemoAgent.run_setup_script; setup.fault: run_full_setup raises,
\* setup.ready: its ready_for_agent
RunSetupScript(progress, setup) ==
  IF setup.fault
  THEN [progress |-> progress,
        value |-> [success |-> FALSE, message |-> SetupText.error \o SetupText.fault]]
  ELSE IF setup.ready
  THEN [progress |-> [progress EXCEPT !.completed_steps = @ \o <<"run_setup_script">>],
        value |-> [success |-> TRUE, message |-> SetupText.completed]]
  ELSE [progress |-> progress,
        value |-> [success |-> FALSE, message |-> SetupText.failed \o SetupText.failed_tasks]]

\* result["verification"] = "manual" on the outcome of execute_single_step
WithVerification(outcome) ==
  [k \in DOMAIN outcome \cup {"verification"} |->
     IF k = "verification" THEN "manual" ELSE outcome[k]]

\* mutant: the scripted step handed to execute_single_step like any other
ExecuteStepThroughOracle(progress, step_name, inp) ==
  [progress |-> progress, result |-> WithVerification(inp.outcome),
   single_steps |-> 1, setup_runs |-> 0]

\* DemoAgent.execute_step_with_verification; inp.has_url: the instruction
\* holds a GitHub URL, inp.setup: the setup script's answer, inp.outcome:
\* what execute_single_step returns.  single_steps and setup_runs count the
\* calls of execute_single_step and of run_setup_script it made
ExecuteStepWithVerification(progress, step_name, inp) ==
  IF step_name = "run_setup_script"
  THEN
    IF ~inp.has_url
    THEN [progress |-> progress,
          result |-> [action |-> "setup_script", result |-> SetupText.no_url,
                      verification |-> "failed"],
          single_steps |-> 0, setup_runs |-> 0]
    ELSE
      LET s == RunSetupScript(progress, inp.setup) IN
      [progress |-> s.progress,
       result |-> [action |-> "setup_script", parameters |-> <<>>,
                   result |-> s.value.message,
                   verification |-> IF s.value.success THEN "success" ELSE "failed",
                   completed |-> s.value.success, timestamp |-> Timestamp],
       single_steps |-> 0, setup_runs |-> 1]
  ELSE [progress |-> progress, result |-> WithVerification(inp.outcome),
        single_steps |-> 1, setup_runs |-> 0]

----------------------------------------------------------------------------
(* DemoOrchestrator *)

\* mutant: every entry numbered as a first attempt
StepLogAttemptOne(step_name, attempt, success) ==
  [step |-> step_name, attempt |-> 1, success |-> success]

\* an execution-log entry, reduced to step, attempt and success: the entry of
\* the try block and that of the except clause differ in the fields left out
StepLog(step_name, attempt, success) ==
  [step |-> step_name, attempt |-> attempt, success |-> success]

\* step_log["success"]
StepLogSuccess(step_name, result) ==
  \/ Get(result, "completed", FALSE)
  \/ Get(result, "verification", "") = "success"
  \/ validate_step_success(step_name, result)

\* the try block of one iteration of execute_step_with_retry's loop;
\* inp.fault: expanding the instruction raises; returned: the `return True`
AttemptTry(progress, log, step_name, attempt, inp) ==
  IF inp.fault
  THEN [raised |-> TRUE, progress |-> progress, log |-> log, returned |-> FALSE]
  ELSE
    LET v == ExecuteStepWithVerification(progress, step_name, inp)
        success == StepLogSuccess(step_name, v.result)
        log1 == Append(log, StepLog(step_name, attempt, success))
    IN
    IF success
       \/ (Get(v.result, "action", "") = "stop" /\ validate_step_success(step_name, v.result))
    THEN [raised |-> FALSE, progress |-> MarkStepCompleted(v.progress, step_name, TRUE),
          log |-> log1, returned |-> TRUE]
    ELSE [raised |-> FALSE, progress |-> v.progress, log |-> log1, returned |-> FALSE]

\* mutant: the exception is swallowed without a log entry
AttemptExceptSilent(t, step_name, attempt) ==
  [t EXCEPT !.raised = FALSE]

\* the except clause of the iteration
AttemptExcept(t, step_name, attempt) ==
  IF t.raised
  THEN [t EXCEPT !.raised = FALSE,
                 !.log = Append(@, StepLog(step_name, attempt, FALSE))]
  ELSE t

\* mutant: the quotient cut off instead of rounded
CompletionRateTruncated(successful_steps, total_steps) ==
  IF total_steps > 0 THEN (successful_steps * 1000) \div total_steps ELSE 0

\* round(successful_steps / total_steps * 100 if total_steps > 0 else 0, 1),
\* in tenths of a percent; round() takes a tie to the even neighbour
CompletionRate(successful_steps, total_steps) ==
  IF total_steps > 0
  THEN LET q == (successful_steps * 1000) \div total_steps
           r == (successful_steps * 1000) % total_steps
       IN  IF 2 * r < total_steps THEN q
           ELSE IF 2 * r > total_steps THEN q + 1
           ELSE IF q % 2 = 0 THEN q ELSE q + 1
  ELSE 0

\* sum(1 for log in self.execution_log if log.get("success", False))
SuccessfulSteps(log) == Cardinality({k \in 1..Len(log) : log[k].success})

\* the failed entries after the first `base` entries of the log
FailedSince(log, base) == Cardinality({k \in (base + 1)..Len(log) : ~log[k].success})

\* the dictionary get_execution_summary builds
ExecutionSummary(log, progress) ==
  [success |-> is_demo_complete(progress),
   steps_completed |-> SuccessfulSteps(log),
   total_steps |-> Len(log),
   completion_rate |-> CompletionRate(SuccessfulSteps(log), Len(log)),
   execution_log |-> log]

\* the dictionary run_full_demo returns from its except clause
CriticalError(log) ==
  [success |-> FALSE, error |-> "Invalid GitHub URL or Meet link provided",
   execution_log |-> log]

\* mutant: the loop goes on with the next step after a failed one
FailureBreakContinue(demo_steps, i) == i + 1

\* the break after a failed step: the index the for loop goes on with
FailureBreakTarget(demo_steps, i) == Len(demo_steps) + 1

\* mutant: the loop takes up the wait step again
WaitBreakRepeat(demo_steps, i) == i

\* the break after wait_for_instructions
WaitBreakTarget(demo_steps, i) == Len(demo_steps) + 1

\* the body of run_full_demo's for loop after execute_step_with_retry
\* returned success for step i
NextStepIndex(demo_steps, i, success) ==
  IF ~success THEN FailureBreakTarget(demo_steps, i)
  ELSE IF demo_steps[i] = "wait_for_instructions" THEN WaitBreakTarget(demo_steps, i)
  ELSE i + 1

----------------------------------------------------------------------------
(* What the collaborators of the demo workflow answer *)

\* the result texts of execute_single_step; oracle_down and meeting_not_ready
\* stand for str(e)
StepText ==
  [task_completed |->
     <<"T", "a", "s", "k", " ", "c", "o", "m", "p", "l", "e", "t", "e", "d">>,
   no_action |->
     <<"N", "o", " ", "a", "c", "t", "i", "o", "n", " ", "d", "e", "t", "e",
       "r", "m", "i", "n", "e", "d">>,
   error_prefix |-> <<"E", "r", "r", "o", "r", ":", " ">>,
   oracle_down |->
     <<"o", "r", "a", "c", "l", "e", " ", "u", "n", "a", "v", "a", "i", "l",
       "a", "b", "l", "e">>,
   meeting_not_ready |->
     <<"M", "e", "e", "t", "i", "n", "g", " ", "n", "o", "t", " ", "r", "e",
       "a", "d", "y">>]

\* tool calls the Oracle proposes
DemoCall ==
  [click |->
     [name |-> "click",
      parameters |-> << << <<"q", "u", "e", "r", "y">>,
          <<"J", "o", "i", "n", " ", "n", "o", "w">> >> >>],
   run_git_clone |->
     [name |-> "run_command",
      parameters |-> << << <<"c", "o", "m", "m", "a", "n", "d">>,
          <<"g", "i", "t", " ", "c", "l", "o", "n", "e", " ", "h", "t", "t",
            "p", "s", ":", "/", "/", "g", "i", "t", "h", "u", "b", ".", "c",
            "o", "m", "/", "o", "/", "r">> >> >>],
   type_git_clone |->
     [name |-> "type_text",
      parameters |-> << << <<"t", "e", "x", "t">>,
          <<"g", "i", "t", " ", "c", "l", "o", "n", "e", " ", "h", "t", "t",
            "p", "s", ":", "/", "/", "g", "i", "t", "h", "u", "b", ".", "c",
            "o", "m", "/", "o", "/", "r">> >> >>],
   type_ls |->
     [name |-> "type_text",
      parameters |-> << << <<"t", "e", "x", "t">>,
          <<"l", "s">> >> >>],
   run_cd |->
     [name |-> "run_command",
      parameters |-> << << <<"c", "o", "m", "m", "a", "n", "d">>,
          <<"c", "d", " ", "r">> >> >>]]

\* observations the Tool Executor returns
Obs ==
  [ok |-> <<"o", "k">>,
   joined |->
     <<"J", "o", "i", "n", "e", "d", " ", "M", "e", "e", "t", "i", "n", "g">>,
   presenting |->
     <<"P", "r", "e", "s", "e", "n", "t", "i", "n", "g", " ", "S", "c", "r",
       "e", "e", "n">>,
   opened |-> <<"O", "p", "e", "n", "e", "d">>,
   cloned |->
     <<"C", "l", "o", "n", "i", "n", "g", " ", "i", "n", "t", "o", " ", "'",
       "r", "'", ".", ".", ".", " ", "d", "o", "n", "e">>,
   clone_failed |->
     <<"C", "l", "o", "n", "i", "n", "g", " ", "i", "n", "t", "o", " ", "'",
       "r", "'", ".", ".", ".", " ", "f", "a", "t", "a", "l", ":", " ", "r",
       "e", "p", "o", "s", "i", "t", "o", "r", "y", " ", "n", "o", "t", " ",
       "f", "o", "u", "n", "d">>,
   cd_failed |->
     <<"c", "d", ":", " ", "r", ":", " ", "n", "o", "t", " ", "f", "o", "u",
       "n", "d">>,
   typed |->
     <<"T", "h", "e", " ", "t", "e", "x", "t", " ", "h", "a", "s", " ", "b",
       "e", "e", "n", " ", "t", "y", "p", "e", "d", ".">>]

\* the outcomes of execute_single_step (api_agent.py)
StopOutcome == StepOutcome("stop", <<>>, StepText.task_completed, TRUE)
NoneOutcome == StepOutcome("none", <<>>, StepText.no_action, FALSE)
StepError(e) == StepOutcome("error", <<>>, StepText.error_prefix \o e, FALSE)
Executed(tool_call, result) ==
  StepOutcome(tool_call.name, tool_call.parameters, result, FALSE)

AgentOutcomes ==
  {StopOutcome, NoneOutcome, StepError(StepText.oracle_down), StepError(StepText.meeting_not_ready)}
  \cup {Executed(DemoCall.click, o) : o \in {Obs.ok, Obs.joined, Obs.presenting, Obs.opened, Obs.cloned}}
  \cup {Executed(DemoCall.run_git_clone, o) : o \in {Obs.cloned, Obs.clone_failed}}
  \cup {Executed(DemoCall.type_git_clone, Obs.typed), Executed(DemoCall.type_ls, Obs.typed), Executed(DemoCall.type_ls, Obs.ok)}
  \cup {Executed(DemoCall.run_cd, o) : o \in {<<>>, Obs.cd_failed}}

\* the answers of DemoSetupScript.run_full_setup
Setups == {s \in [fault : BOOLEAN, ready : BOOLEAN] : s.fault => ~s.ready}

\* the answers offered to an attempt of the workflow: the setup script's for
\* the scripted step, the agent's for the others
AttemptInputs(step_name) ==
  {[fault |-> TRUE, has_url |-> TRUE, setup |-> [fault |-> FALSE, ready |-> FALSE],
    outcome |-> NoneOutcome]}
  \cup (IF step_name = "run_setup_script"
        THEN [fault : {FALSE}, has_url : {TRUE}, setup : Setups, outcome : {NoneOutcome}]
        ELSE [fault : {FALSE}, has_url : {TRUE},
              setup : {[fault |-> FALSE, ready |-> FALSE]},
              outcome : {StopOutcome, NoneOutcome, Executed(DemoCall.click, Obs.joined)}])

\* the answers offered to a direct call of a DemoAgent method
DirectInputs ==
  [fault : {FALSE}, has_url : BOOLEAN, setup : Setups,
   outcome : {StopOutcome, NoneOutcome}]

DirectSteps == {"run_setup_script", "join_meet_call"}

StepNames ==
  {HybridSteps[k] : k \in 1..Len(HybridSteps)}
  \cup {LegacySteps[k] : k \in 1..Len(LegacySteps)}
  \cup {"cleanup"}

\* the step names and answers the classification is applied to
ValidationInputs ==
  {[step_name |-> "run_setup_script",
    inp |-> [fault |-> FALSE, has_url |-> u, setup |-> s, outcome |-> o]] :
     u \in BOOLEAN, s \in Setups, o \in {NoneOutcome, StopOutcome}}
  \cup {[step_name |-> n,
         inp |-> [fault |-> FALSE, has_url |-> TRUE,
                  setup |-> [fault |-> FALSE, ready |-> FALSE], outcome |-> o]] :
          n \in StepNames \ {"run_setup_script"}, o \in AgentOutcomes}

IdleWorkflow == [pc |-> "idle", demo_steps |-> <<>>, step |-> 0, attempt |-> 0, base |-> 0]

NoCall == [op |-> "init"]

\* Python's None
None == "None"

NoValidation == [step_name |-> "", applied |-> FALSE]

----------------------------------------------------------------------------

\* APISandboxAgent.__init__
AgentInit ==
  /\ messages = <<>>
  /\ tracked_actions = <<>>
  /\ call_function = 0
  /\ pc = "idle"
  /\ original_call_function = 0
  /\ stop_detected = FALSE
  /\ should_continue = FALSE
  /\ iteration_count = 0
  /\ tool_calls = <<>>
  /\ oracle_calls = 0
  /\ executor_calls = <<>>
  /\ turn_start = 0
  /\ oracle_replies = 0
  /\ ret = [op |-> "init", instruction |-> <<>>, raised |-> FALSE,
            fault |-> FALSE, value |-> <<>>]

\* DemoAgent.__init__ and DemoOrchestrator.__init__
DemoInit ==
  /\ demo_progress = ConstructedProgress
  /\ execution_log = <<>>
  /\ use_hybrid_approach = TRUE
  /\ workflow = IdleWorkflow
  /\ demo_ret = NoCall

\* api_server.py at import: no session; the clock starts at tick 0
SessionInit ==
  /\ demo_sessions = <<>>
  /\ session_objects = <<>>
  /\ tasks = <<>>
  /\ now = 0

\* MeetingService.__init__
MeetingInit ==
  /\ meeting_status = "not_started"
  /\ current_meet_url = None
  /\ meeting_log = <<>>
  /\ meeting_ret = NoCall

\* api_server.py at import: rate_limit_storage = defaultdict(list)
RateInit ==
  /\ rate_limit_storage = <<>>
  /\ admitted = <<>>
  /\ rate_ret = NoCall
  /\ status_pending = {}

Init ==
  /\ AgentInit /\ DemoInit /\ validation = NoValidation /\ SessionInit /\ MeetingInit
  /\ RateInit

Next ==
  \/ \E instruction \in Instructions :
       \E inp \in Inputs(oracle_replies, 0) : execute_single_step(instruction, inp)
  \/ \E instruction \in Instructions : RunStart(instruction)
  \/ \E inp \in FreeInputs \cup CapInputs \cup {KeepGoingInput} : Turn(inp)
  \/ Finish
  \/ reset_agent

Spec == Init /\ [][Next]_vars

----------------------------------------------------------------------------
(* The demo workflow as a state machine.  The conversation of the agent is *)
(* not followed here: what execute_single_step returns is drawn from the   *)
(* outcomes above.                                                         *)

\* a DemoAgent and the DemoOrchestrator around it are constructed
\* (api_server.py create_demo_session, hybrid_demo_test.py); the caller may
\* then set use_hybrid_approach
NewDemoOrchestrator(hybrid) ==
  /\ workflow.pc = "idle"
  /\ demo_progress' = ConstructedProgress
  /\ execution_log' = <<>>
  /\ use_hybrid_approach' = hybrid
  /\ workflow' = IdleWorkflow
  /\ demo_ret' = [op |-> "new"]
  /\ UNCHANGED <<agentVars, validation, sessionVars, meetingVars, rateVars>>

\* a direct call of DemoAgent.initialize_demo_session
initialize_demo_session(valid) ==
  /\ workflow.pc = "idle"
  /\ Len(execution_log) <= MaxLogAtCall
  /\ LET s == InitializeDemoSession(demo_progress, valid) IN
     /\ demo_progress' = s.progress
     /\ demo_ret' = [op |-> "initialize_demo_session", raised |-> s.raised]
  /\ UNCHANGED <<agentVars, execution_log, use_hybrid_approach, workflow, validation, sessionVars, meetingVars, rateVars>>

\* a direct call of DemoAgent.mark_step_completed
mark_step_completed(step_name, success) ==
  /\ workflow.pc = "idle"
  /\ Len(execution_log) <= MaxLogAtCall
  /\ LET p == MarkStepCompleted(demo_progress, step_name, success) IN
     /\ Len(p.completed_steps) <= MaxCompleted
     /\ demo_progress' = p
  /\ demo_ret' = [op |-> "mark_step_completed", step_name |-> step_name,
                  success |-> success]
  /\ UNCHANGED <<agentVars, execution_log, use_hybrid_approach, workflow, validation, sessionVars, meetingVars, rateVars>>

\* a direct call of DemoAgent.run_setup_script
run_setup_script(setup) ==
  /\ workflow.pc = "idle"
  /\ Len(execution_log) <= MaxLogAtCall
  /\ LET s == RunSetupScript(demo_progress, setup) IN
     /\ Len(s.progress.completed_steps) <= MaxCompleted
     /\ demo_progress' = s.progress
     /\ demo_ret' = [op |-> "run_setup_script", value |-> s.value]
  /\ UNCHANGED <<agentVars, execution_log, use_hybrid_approach, workflow, validation, sessionVars, meetingVars, rateVars>>

\* a direct call of DemoAgent.execute_step_with_verification
execute_step_with_verification(step_name, inp) ==
  /\ workflow.pc = "idle"
  /\ Len(execution_log) <= MaxLogAtCall
  /\ LET v == ExecuteStepWithVerification(demo_progress, step_name, inp) IN
     /\ Len(v.progress.completed_steps) <= MaxCompleted
     /\ demo_progress' = v.progress
     /\ demo_ret' = [op |-> "execute_step_with_verification", step_name |-> step_name,
                     value |-> v.result]
  /\ UNCHANGED <<agentVars, execution_log, use_hybrid_approach, workflow, validation, sessionVars, meetingVars, rateVars>>

\* a direct call of DemoOrchestrator.get_execution_summary
get_execution_summary ==
  /\ workflow.pc = "idle"
  /\ Len(execution_log) <= MaxLogAtCall
  /\ demo_ret' = [op |-> "get_execution_summary",
                  value |-> ExecutionSummary(execution_log, demo_progress)]
  /\ UNCHANGED <<agentVars, demo_progress, execution_log, use_hybrid_approach,
                 workflow, validation, sessionVars, meetingVars, rateVars>>

\* run_full_demo up to its first attempt: the session is initialised and
\* the step list chosen; a rejected session returns from the except clause
run_full_demo(valid) ==
  /\ workflow.pc = "idle"
  /\ Len(execution_log) <= MaxLogAtCall
  /\ LET s == InitializeDemoSession(demo_progress, valid) IN
     /\ demo_progress' = s.progress
     /\ IF s.raised
        THEN /\ workflow' = [IdleWorkflow EXCEPT !.base = Len(execution_log)]
             /\ demo_ret' = [op |-> "run_full_demo", value |-> CriticalError(execution_log)]
        ELSE /\ workflow' = [pc |-> "attempt",
                             demo_steps |-> IF use_hybrid_approach THEN HybridSteps
                                            ELSE LegacySteps,
                             step |-> 1, attempt |-> 1, base |-> Len(execution_log)]
             /\ demo_ret' = [op |-> "running"]
  /\ UNCHANGED <<agentVars, execution_log, use_hybrid_approach, validation, sessionVars, meetingVars, rateVars>>

\* one iteration of execute_step_with_retry's loop and what follows it
\* without a pause: the return to run_full_demo's loop, and from there the
\* next step or the summary
Attempt(inp) ==
  /\ workflow.pc = "attempt"
  /\ LET step_name == workflow.demo_steps[workflow.step]
         t == AttemptExcept(AttemptTry(demo_progress, execution_log, step_name,
                                       workflow.attempt, inp),
                            step_name, workflow.attempt)
         retry == ~t.returned /\ workflow.attempt < MAX_RETRIES_PER_STEP
         progress == IF t.returned \/ retry THEN t.progress
                     ELSE MarkStepCompleted(t.progress, step_name, FALSE)
         n == NextStepIndex(workflow.demo_steps, workflow.step, t.returned)
     IN
     /\ inp \in AttemptInputs(step_name)
     /\ t.returned \/ FailedSince(execution_log, workflow.base) < MaxFailures
     /\ execution_log' = t.log
     /\ demo_progress' = progress
     /\ IF retry
        THEN /\ workflow' = [workflow EXCEPT !.attempt = @ + 1]
             /\ UNCHANGED demo_ret
        ELSE IF n <= Len(workflow.demo_steps)
        THEN /\ workflow' = [workflow EXCEPT !.step = n, !.attempt = 1]
             /\ UNCHANGED demo_ret
        ELSE /\ workflow' = [workflow EXCEPT !.pc = "idle"]
             /\ demo_ret' = [op |-> "run_full_demo",
                             value |-> ExecutionSummary(t.log, progress)]
  /\ UNCHANGED <<agentVars, use_hybrid_approach, validation, sessionVars, meetingVars, rateVars>>

NextDemo ==
  \/ \E hybrid \in BOOLEAN : NewDemoOrchestrator(hybrid)
  \/ \E valid \in BOOLEAN : initialize_demo_session(valid)
  \/ \E step_name \in DirectSteps, success \in BOOLEAN : mark_step_completed(step_name, success)
  \/ \E setup \in Setups : run_setup_script(setup)
  \/ \E step_name \in DirectSteps, inp \in DirectInputs :
       execute_step_with_verification(step_name, inp)
  \/ get_execution_summary
  \/ \E valid \in BOOLEAN : run_full_demo(valid)
  \/ \E inp \in UNION {AttemptInputs(n) : n \in StepNames} : Attempt(inp)

SpecDemo == Init /\ [][NextDemo]_vars

----------------------------------------------------------------------------
(* The classification of an attempt, applied to every step name and answer *)

InitValidate ==
  /\ AgentInit
  /\ DemoInit
  /\ SessionInit
  /\ MeetingInit
  /\ RateInit
  /\ validation \in {[step_name |-> v.step_name, inp |-> v.inp, applied |-> FALSE] :
                       v \in ValidationInputs}

\* what an attempt computes between the agent's answer and its log entry
ClassifyAttempt ==
  /\ ~validation.applied
  /\ LET v == ExecuteStepWithVerification(ConstructedProgress, validation.step_name,
                                          validation.inp)
     IN  validation' = [step_name |-> validation.step_name, inp |-> validation.inp,
                        applied |-> TRUE, result |-> v.result,
                        single_steps |-> v.single_steps, setup_runs |-> v.setup_runs,
                        success |-> StepLogSuccess(validation.step_name, v.result)]
  /\ UNCHANGED <<agentVars, demoVars, sessionVars, meetingVars, rateVars>>

NextValidate == ClassifyAttempt

SpecValidate == InitValidate /\ [][NextValidate]_vars

----------------------------------------------------------------------------
(* DemoSetupScript.run_full_setup (src/os_computer_use/demo_setup_script.py) *)
(* and the DemoAgent.run_setup_script around it, applied to every          *)
(* combination of results of the five task methods.                        *)

\* mutant: a failed code viewer fails the setup like any other task
EveryTaskCritical(task) == TRUE

\* a failed task sets overall_success to False, except open_code_viewer
\* ("Not critical, continue")
SetsOverallFailure(task) == task # "open_code_viewer"

\* DemoSetupScript.run_full_setup; task_ok[m]: the task method m returns
\* True.  attempted lists the task methods in the order they were called
RunFullSetup(task_ok) ==
  LET Task(results, method, task) ==
        IF task_ok[method]
        THEN [results EXCEPT !.completed_tasks = Append(@, task),
                             !.attempted = Append(@, method)]
        ELSE [results EXCEPT !.failed_tasks = Append(@, task),
                             !.attempted = Append(@, method),
                             !.overall_success = @ /\ ~SetsOverallFailure(task)]
      r0 == [overall_success |-> TRUE, completed_tasks |-> <<>>, failed_tasks |-> <<>>,
             ready_for_agent |-> FALSE, attempted |-> <<>>]
      r1 == Task(r0, "open_terminal", "open_terminal")
      r2 == Task(r1, "clone_repository", "clone_repository")
      r3 == Task(r2, "navigate_to_repository", "navigate_to_repo")
      r4 == Task(r3, "open_code_viewer", "open_code_viewer")
      r5 == Task(r4, "open_browser_to_meet", "open_browser")
  IN [r5 EXCEPT !.ready_for_agent = r5.overall_success]

\* the task methods' results, whether the script raises instead of
\* returning, and the agent's progress before the call
InitSetup ==
  /\ AgentInit
  /\ DemoInit
  /\ SessionInit
  /\ MeetingInit
  /\ RateInit
  /\ \E task_ok \in [{"open_terminal", "clone_repository", "navigate_to_repository",
                      "open_code_viewer", "open_browser_to_meet"} -> BOOLEAN],
        fault \in BOOLEAN,
        before \in {ConstructedProgress,
                    InitializeDemoSession(ConstructedProgress, TRUE).progress} :
       validation = [step_name |-> "run_setup_script", applied |-> FALSE,
                     task_ok |-> task_ok, fault |-> fault, before |-> before]

\* DemoAgent.run_setup_script on the setup script's results
run_full_setup ==
  /\ ~validation.applied
  /\ LET setup_results == RunFullSetup(validation.task_ok)
         s == RunSetupScript(validation.before,
                             [fault |-> validation.fault,
                              ready |-> ~validation.fault /\ setup_results.ready_for_agent])
     IN
     /\ demo_progress' = s.progress
     /\ validation' = [step_name |-> "run_setup_script", applied |-> TRUE,
                       task_ok |-> validation.task_ok, fault |-> validation.fault,
                       before |-> validation.before,
                       setup_results |-> setup_results, value |-> s.value]
  /\ UNCHANGED <<agentVars, execution_log, use_hybrid_approach, workflow, demo_ret,
                 sessionVars, meetingVars, rateVars>>

NextSetup == run_full_setup

SpecSetup == InitSetup /\ [][NextSetup]_vars

----------------------------------------------------------------------------
(* MeetingService (src/os_computer_use/meeting_service.py): the three      *)
(* operations that hand a step to the agent.  A URL is a sequence of       *)
(* one-character strings; a log entry is reduced to its status.            *)

MeetPrefix ==
  <<"h", "t", "t", "p", "s", ":", "/", "/", "m", "e", "e", "t", ".", "g",
    "o", "o", "g", "l", "e", ".", "c", "o", "m", "/">>

\* the URLs a caller passes: a meeting link and one that is none
MeetUrls ==
  {MeetPrefix \o <<"a", "b", "c", "-", "d", "e", "f", "g", "-", "h", "i", "j">>,
   MeetPrefix \o <<"n", "e", "w">>}

IsLowerLetter(c) == \E k \in 1..Len(LowerCase) : LowerCase[k] = c

\* the pattern of validate_meet_url: the prefix, then [a-z]{3}-[a-z]{4}-[a-z]{3}
MatchesMeetPattern(meet_url) ==
  /\ Len(meet_url) = Len(MeetPrefix) + 12
  /\ SubSeq(meet_url, 1, Len(MeetPrefix)) = MeetPrefix
  /\ \A i \in 1..12 :
       LET c == meet_url[Len(MeetPrefix) + i] IN
       IF i \in {4, 9} THEN c = "-" ELSE IsLowerLetter(c)

\* self.log(message, status) on the service st
Log(st, status) == [st EXCEPT !.log = Append(@, status)]

\* mutant: every URL accepted
ValidateMeetUrlAccepts(st, meet_url) == [st |-> st, value |-> TRUE]

\* MeetingService.validate_meet_url: an invalid URL is logged as an error
validate_meet_url(st, meet_url) ==
  IF MatchesMeetPattern(meet_url)
  THEN [st |-> st, value |-> TRUE]
  ELSE [st |-> Log(st, "error"), value |-> FALSE]

\* MeetingService.run_command, reduced to its log entries and its success
\* flag; ok: the command exits with 0
RunCommand(st, ok) ==
  [st |-> Log(Log(st, "info"), IF ok THEN "success" ELSE "error"),
   value |-> [success |-> ok]]

\* mutant: an outcome without a success indicator taken for a failure
AgentSucceededIfStated(result) == Get(result, "success", FALSE)

\* result.get("success", True)
AgentSucceeded(result) == Get(result, "success", TRUE)

\* MeetingService.navigate_to_meet_with_agent; agent: an agent is passed,
\* inp.outcome: what its execute_single_step returns, inp.cmd_ok: the
\* browser command succeeds
NavigateToMeetWithAgent(st, meet_url, agent, inp) ==
  LET v == validate_meet_url(st, meet_url) IN
  IF ~v.value
  THEN [st |-> v.st,
        value |-> [success |-> FALSE, message |-> <<"Invalid Google Meet URL">>,
                   next_action |-> "fix_url"]]
  ELSE
    LET s1 == Log([v.st EXCEPT !.url = meet_url], "info") IN
    IF agent
    THEN
      LET s2 == Log(s1, "info")
          result == inp.outcome
      IN
      IF AgentSucceeded(result)
      THEN [st |-> Log(s2, "success"),
            value |-> [success |-> TRUE,
                       message |-> <<"Successfully navigated to ">> \o meet_url,
                       meet_url |-> meet_url, next_action |-> "join_meeting",
                       agent_result |-> result]]
      ELSE [st |-> Log(s2, "error"),
            value |-> [success |-> FALSE,
                       message |-> <<"AI agent failed to navigate to Meet URL">>,
                       meet_url |-> meet_url, agent_result |-> result]]
    ELSE
      LET nav_result == RunCommand(Log(s1, "warning"), inp.cmd_ok) IN
      IF nav_result.value.success
      THEN [st |-> nav_result.st,
            value |-> [success |-> TRUE,
                       message |-> <<"Opened browser to ">> \o meet_url,
                       meet_url |-> meet_url, next_action |-> "join_meeting",
                       method |-> "direct_browser"]]
      ELSE [st |-> nav_result.st,
            value |-> [success |-> FALSE,
                       message |-> <<"Failed to open browser to Meet URL">>]]

\* MeetingService.join_meeting_with_agent
JoinMeetingWithAgent(st, agent, inp) ==
  IF st.url = None
  THEN [st |-> st,
        value |-> [success |-> FALSE, message |-> <<"No Meet URL set - navigate first">>,
                   next_action |-> "navigate_first"]]
  ELSE
    LET s1 == Log(st, "info") IN
    IF agent
    THEN
      LET s2 == Log(s1, "info")
          result == inp.outcome
      IN
      IF AgentSucceeded(result)
      THEN [st |-> [Log(s2, "success") EXCEPT !.status = "joined"],
            value |-> [success |-> TRUE,
                       message |-> <<"Successfully joined Google Meet call">>,
                       meet_url |-> st.url, status |-> "joined",
                       next_action |-> "start_screen_share", agent_result |-> result]]
      ELSE [st |-> Log(s2, "error"),
            value |-> [success |-> FALSE,
                       message |-> <<"AI agent failed to join meeting">>,
                       meet_url |-> st.url, agent_result |-> result]]
    ELSE [st |-> Log(s1, "warning"),
          value |-> [success |-> FALSE,
                     message |-> <<"AI agent required for meeting join">>,
                     meet_url |-> st.url]]

\* MeetingService.start_screen_share_with_agent
StartScreenShareWithAgent(st, agent, inp) ==
  IF st.status # "joined"
  THEN [st |-> st,
        value |-> [success |-> FALSE,
                   message |-> <<"Must join meeting first before screen sharing">>,
                   next_action |-> "join_meeting_first"]]
  ELSE
    LET s1 == Log(st, "info") IN
    IF agent
    THEN
      LET s2 == Log(s1, "info")
          result == inp.outcome
      IN
      IF AgentSucceeded(result)
      THEN [st |-> [Log(s2, "success") EXCEPT !.status = "screen_sharing"],
            value |-> [success |-> TRUE,
                       message |-> <<"Successfully started screen sharing">>,
                       meet_url |-> st.url, status |-> "screen_sharing",
                       agent_result |-> result]]
      ELSE [st |-> Log(s2, "error"),
            value |-> [success |-> FALSE,
                       message |-> <<"AI agent failed to start screen sharing">>,
                       status |-> st.status, agent_result |-> result]]
    ELSE [st |-> Log(s1, "warning"),
          value |-> [success |-> FALSE,
                     message |-> <<"AI agent required for screen sharing">>]]

\* MeetingService.open_browser: firefox, then chrome, then chromium
OpenBrowser(st, inp) ==
  LET Run(s) == RunCommand(s, inp.cmd_ok)
      firefox_result == Run(Log(st, "info"))
      chrome_result == Run(Log(firefox_result.st, "warning"))
      chromium_result == Run(chrome_result.st)
  IN
  IF firefox_result.value.success
  THEN [st |-> Log(firefox_result.st, "success"), value |-> TRUE]
  ELSE IF chrome_result.value.success
  THEN [st |-> Log(chrome_result.st, "success"), value |-> TRUE]
  ELSE IF chromium_result.value.success
  THEN [st |-> Log(chromium_result.st, "success"), value |-> TRUE]
  ELSE [st |-> Log(chromium_result.st, "error"), value |-> FALSE]

\* MeetingService.setup_meeting_environment, with the navigate_to_meet it
\* calls as its third task; the value is reduced to overall_success
SetupMeetingEnvironment(st, meet_url, inp) ==
  LET v == validate_meet_url(Log(Log(st, "info"), "info"), meet_url)
      b == OpenBrowser(v.st, inp)
      nav == validate_meet_url(b.st, meet_url)
  IN
  IF ~v.value THEN [st |-> v.st, value |-> [overall_success |-> FALSE]]
  ELSE IF ~b.value THEN [st |-> b.st, value |-> [overall_success |-> FALSE]]
  ELSE IF nav.value
  THEN [st |-> Log([Log([nav.st EXCEPT !.url = meet_url], "info")
                      EXCEPT !.status = "ready_for_agent"], "success"),
        value |-> [overall_success |-> TRUE]]
  ELSE [st |-> nav.st, value |-> [overall_success |-> FALSE]]

\* MeetingService.navigate_to_meet_with_commands: the results of its
\* commands are not looked at, except for the first one's fallback
NavigateToMeetWithCommands(st, inp) ==
  LET Run(s) == RunCommand(s, inp.cmd_ok)
      focus_result == Run(Log(Log(st, "info"), "info"))
      s1 == IF focus_result.value.success THEN focus_result.st
            ELSE Run(Log(focus_result.st, "warning")).st
      s2 == Run(Log(s1, "info")).st
      s3 == Run(Log(s2, "info")).st
      s4 == Run(Log(s3, "info")).st
  IN [st |-> Log(s4, "success"),
      value |-> [success |-> TRUE, next_action |-> "join_meeting"]]

\* MeetingService.join_meeting_with_commands
JoinMeetingWithCommands(st, inp) ==
  LET Run(s) == RunCommand(s, inp.cmd_ok).st
      s1 == Run(Run(Run(Log(Log(Log(st, "info"), "info"), "info"))))
      s2 == Run(Log(s1, "info"))
      s3 == Run(Log(Log(s2, "info"), "info"))
      s4 == Run(Log(s3, "info"))
      s5 == Log(Run(Log(s4, "info")), "info")
  IN [st |-> Log([Log(s5, "info") EXCEPT !.status = "joined"], "success"),
      value |-> [success |-> TRUE, status |-> "joined"]]

\* MeetingService.complete_meeting_setup_with_commands; success1, success2,
\* success3: results["success"] after each step.  The failed branch of
\* step 1 appends to the errors and leaves results["success"] alone
CompleteMeetingSetupWithCommands(st, meet_url, inp) ==
  LET env_result == SetupMeetingEnvironment(
                      Log(Log(Log(Log(st, "info"), "info"), "info"), "info"),
                      meet_url, inp)
      env_ok == Get(env_result.value, "overall_success", FALSE)
      steps1 == IF env_ok THEN <<"browser_environment">> ELSE <<>>
      errors1 == IF env_ok THEN <<>> ELSE <<"browser_environment_failed">>
      success1 == TRUE
      s1 == Log(env_result.st, IF env_ok THEN "success" ELSE "error")
      nav_result == NavigateToMeetWithCommands(Log(s1, "info"), inp)
      nav_ok == nav_result.value.success
      steps2 == IF nav_ok THEN Append(steps1, "navigation") ELSE steps1
      errors2 == IF nav_ok THEN errors1 ELSE Append(errors1, "navigation_failed")
      success2 == success1 /\ nav_ok
      s2 == IF nav_ok THEN Log(nav_result.st, "success") ELSE nav_result.st
      join_result == JoinMeetingWithCommands(Log(s2, "info"), inp)
      join_ok == join_result.value.success
      steps3 == IF join_ok THEN Append(steps2, "meeting_joined") ELSE steps2
      errors3 == IF join_ok THEN errors2 ELSE Append(errors2, "meeting_join_failed")
      success3 == success2 /\ join_ok
      s3 == IF join_ok THEN Log(join_result.st, "success") ELSE join_result.st
  IN
  IF success3
  THEN [st |-> Log([s3 EXCEPT !.status = "active"], "success"),
        value |-> [success |-> TRUE, steps_completed |-> steps3, errors |-> errors3,
                   final_status |-> "active"]]
  ELSE [st |-> Log(s3, "warning"),
        value |-> [success |-> FALSE, steps_completed |-> steps3, errors |-> errors3,
                   final_status |-> "partial"]]

\* what the agent's execute_single_step returns to the service
MeetingOutcomes ==
  {StopOutcome, NoneOutcome, StepError(StepText.oracle_down),
   Executed(DemoCall.click, Obs.joined)}

MeetingInputs == [outcome : MeetingOutcomes, cmd_ok : BOOLEAN]

\* the service as one record
Service == [status |-> meeting_status, url |-> current_meet_url, log |-> meeting_log]

\* the service takes the state r.st and the caller gets r.value
MeetingCall(op, r) ==
  /\ Len(meeting_log) <= MaxMeetingLog
  /\ meeting_status' = r.st.status
  /\ current_meet_url' = r.st.url
  /\ meeting_log' = r.st.log
  /\ meeting_ret' = [op |-> op, value |-> r.value]
  /\ UNCHANGED <<agentVars, demoVars, validation, sessionVars, rateVars>>

navigate_to_meet_with_agent(meet_url, agent, inp) ==
  MeetingCall("navigate_to_meet_with_agent",
              NavigateToMeetWithAgent(Service, meet_url, agent, inp))

join_meeting_with_agent(agent, inp) ==
  MeetingCall("join_meeting_with_agent", JoinMeetingWithAgent(Service, agent, inp))

start_screen_share_with_agent(agent, inp) ==
  MeetingCall("start_screen_share_with_agent",
              StartScreenShareWithAgent(Service, agent, inp))

join_meeting_with_commands(inp) ==
  MeetingCall("join_meeting_with_commands", JoinMeetingWithCommands(Service, inp))

complete_meeting_setup_with_commands(meet_url, inp) ==
  MeetingCall("complete_meeting_setup_with_commands",
              CompleteMeetingSetupWithCommands(Service, meet_url, inp))

NextMeeting ==
  \/ \E meet_url \in MeetUrls, agent \in BOOLEAN, inp \in MeetingInputs :
       navigate_to_meet_with_agent(meet_url, agent, inp)
  \/ \E agent \in BOOLEAN, inp \in MeetingInputs : join_meeting_with_agent(agent, inp)
  \/ \E agent \in BOOLEAN, inp \in MeetingInputs : start_screen_share_with_agent(agent, inp)
  \/ \E inp \in MeetingInputs : join_meeting_with_commands(inp)
  \/ \E meet_url \in MeetUrls, inp \in MeetingInputs :
       complete_meeting_setup_with_commands(meet_url, inp)

SpecMeeting == Init /\ [][NextMeeting]_vars

----------------------------------------------------------------------------
(* The demo-session registry of src/api_server.py: POST /demo-session,     *)
(* the background task it starts, and the cleanup endpoint.  The handlers  *)
(* and the tasks share one event loop: a handler runs without suspending,  *)
(* a task runs from one `await asyncio.sleep` to the next, and a task that *)
(* was created starts before the next request is handled.  The wall clock  *)
(* advances in ticks, at any moment.                                       *)

\* the POST /demo-session requests the server receives
Requests == {"r1", "r2"}

\* datetime.now().strftime("%Y%m%d_%H%M%S"): the clock cut to whole seconds
Strftime(t) == t \div TicksPerSecond

\* f"demo_{timestamp}"
SessionId(t) == <<"demo_", Strftime(t)>>

\* the ids a caller of the cleanup endpoint may name
SessionIds == {SessionId(t) : t \in 0..MaxClock}

\* DemoAgent(...), initialize_demo_session and DemoOrchestrator(demo_agent)
\* of create_demo_session, with the sandbox they run on
NewSessionObject(valid) ==
  [progress |-> InitializeDemoSession(ConstructedProgress, valid).progress,
   execution_log |-> <<>>, sandbox |-> "running"]

\* the entry stored in demo_sessions: agent, sandbox and orchestrator are
\* those of the object created for request r
SessionEntry(r) == [object |-> r, status |-> "initialized"]

\* asyncio.create_task(run_demo_background()): the closure holds session_id
NewTask(session_id) ==
  [session_id |-> session_id, pc |-> "scheduled", orchestrator |-> None,
   step |-> 0, attempt |-> 0]

\* no task is due to start and none is running: the event loop can take
\* a request or resume a sleeping task
LoopFree == \A r \in DOMAIN tasks : tasks[r].pc \notin {"scheduled", "running"}

Without(f, key) == [k \in DOMAIN f \ {key} |-> f[k]]

\* demo_sessions[session_id]["status"] = status in run_demo_background: a
\* KeyError there is raised again by the except clause's own assignment,
\* and ends the task
SetStatus(sessions, session_id, status) ==
  IF session_id \in DOMAIN sessions
  THEN [raised |-> FALSE, sessions |-> [sessions EXCEPT ![session_id].status = status]]
  ELSE [raised |-> TRUE, sessions |-> sessions]

\* the answers offered to an attempt of a session's workflow
SessionInputs(step_name) ==
  {i \in AttemptInputs(step_name) :
     ~i.fault /\ ~i.setup.fault /\ i.outcome \in {StopOutcome, NoneOutcome}}

\* failed attempts in the execution logs of all sessions
RECURSIVE SessionFailures(_)
SessionFailures(objects) ==
  IF DOMAIN objects = {} THEN 0
  ELSE LET r == CHOOSE k \in DOMAIN objects : TRUE IN
       FailedSince(objects[r].execution_log, 0) + SessionFailures(Without(objects, r))

\* the clock advances; it is read by the request handlers only, so its
\* advance is taken between two turns of the event loop
Tick ==
  /\ LoopFree
  /\ now < MaxClock
  /\ now' = now + 1
  /\ UNCHANGED <<demo_sessions, session_objects, tasks>>
  /\ UNCHANGED <<agentVars, demoVars, validation, meetingVars, rateVars>>

\* POST /demo-session for request r; a rejected URL is answered with 500
\* and leaves the registry alone
create_demo_session(r, valid) ==
  /\ LoopFree
  /\ r \notin DOMAIN session_objects
  /\ session_objects' = (r :> NewSessionObject(valid)) @@ session_objects
  /\ IF valid
     THEN /\ demo_sessions' = (SessionId(now) :> SessionEntry(r)) @@ demo_sessions
          /\ tasks' = (r :> NewTask(SessionId(now))) @@ tasks
     ELSE UNCHANGED <<demo_sessions, tasks>>
  /\ UNCHANGED now
  /\ UNCHANGED <<agentVars, demoVars, validation, meetingVars, rateVars>>

\* run_demo_background from its start to the first attempt: the
\* orchestrator is looked up under the session id, and run_full_demo
\* initialises the session of that orchestrator's agent again
TaskStart(r) ==
  /\ r \in DOMAIN tasks
  /\ tasks[r].pc = "scheduled"
  /\ LET id == tasks[r].session_id IN
     IF id \in DOMAIN demo_sessions
     THEN LET o == demo_sessions[id].object IN
          /\ tasks' = [tasks EXCEPT ![r].pc = "running", ![r].orchestrator = o,
                                    ![r].step = 1, ![r].attempt = 1]
          /\ session_objects' =
               [session_objects EXCEPT ![o].progress =
                  InitializeDemoSession(@, TRUE).progress]
     ELSE /\ tasks' = [tasks EXCEPT ![r].pc = "dead"]
          /\ UNCHANGED session_objects
  /\ UNCHANGED <<demo_sessions, now>>
  /\ UNCHANGED <<agentVars, demoVars, validation, meetingVars, rateVars>>

\* one attempt of the task's run_full_demo, on the orchestrator the task
\* holds: a failed attempt that has a retry left suspends the task in
\* asyncio.sleep; the end of the workflow writes the status and ends the task
TaskAttempt(r, inp) ==
  /\ r \in DOMAIN tasks
  /\ \/ tasks[r].pc = "running"
     \/ tasks[r].pc = "sleeping" /\ LoopFree
  /\ LET o == tasks[r].orchestrator
         step_name == HybridSteps[tasks[r].step]
         t == AttemptExcept(AttemptTry(session_objects[o].progress,
                                       session_objects[o].execution_log,
                                       step_name, tasks[r].attempt, inp),
                            step_name, tasks[r].attempt)
         retry == ~t.returned /\ tasks[r].attempt < MAX_RETRIES_PER_STEP
         progress == IF t.returned \/ retry THEN t.progress
                     ELSE MarkStepCompleted(t.progress, step_name, FALSE)
         n == NextStepIndex(HybridSteps, tasks[r].step, t.returned)
         written == SetStatus(demo_sessions, tasks[r].session_id, "completed")
     IN
     /\ inp \in SessionInputs(step_name)
     /\ t.returned \/ SessionFailures(session_objects) < MaxSessionFailures
     /\ session_objects' = [session_objects EXCEPT ![o].progress = progress,
                                                   ![o].execution_log = t.log]
     /\ IF retry
        THEN /\ tasks' = [tasks EXCEPT ![r].pc = "sleeping", ![r].attempt = @ + 1]
             /\ UNCHANGED demo_sessions
        ELSE IF n <= Len(HybridSteps)
        THEN /\ tasks' = [tasks EXCEPT ![r].pc = "running", ![r].step = n, ![r].attempt = 1]
             /\ UNCHANGED demo_sessions
        ELSE /\ tasks' = [tasks EXCEPT ![r].pc = IF written.raised THEN "dead" ELSE "done"]
             /\ demo_sessions' = written.sessions
  /\ UNCHANGED now
  /\ UNCHANGED <<agentVars, demoVars, validation, meetingVars, rateVars>>

\* DemoAgent.cleanup_demo_session: the final status
CleanupStatus(progress) ==
  [progress EXCEPT !.status = IF is_demo_complete(progress) THEN "completed"
                              ELSE "terminated"]

\* POST /demo-session/{session_id}/cleanup for a session id that is stored
cleanup_demo_session(session_id) ==
  /\ LoopFree
  /\ session_id \in DOMAIN demo_sessions
  /\ LET o == demo_sessions[session_id].object IN
     session_objects' = [session_objects EXCEPT ![o].progress = CleanupStatus(@),
                                                ![o].sandbox = "killed"]
  /\ demo_sessions' = Without(demo_sessions, session_id)
  /\ UNCHANGED <<tasks, now>>
  /\ UNCHANGED <<agentVars, demoVars, validation, meetingVars, rateVars>>

NextSessions ==
  \/ Tick
  \/ \E r \in Requests, valid \in BOOLEAN : create_demo_session(r, valid)
  \/ \E r \in Requests : TaskStart(r)
  \/ \E r \in Requests :
       \E inp \in UNION {SessionInputs(n) : n \in StepNames} : TaskAttempt(r, inp)
  \/ \E session_id \in SessionIds : cleanup_demo_session(session_id)

SpecSessions == Init /\ [][NextSessions]_vars

----------------------------------------------------------------------------
(* The rate limiter of src/api_server.py.  rate_limit_check runs under     *)
(* rate_limit_lock from its reading of the clock to its end, so each call  *)
(* is one step whatever the threads' interleaving.  A tick of the clock is *)
(* half the window of 60 seconds here.                                     *)

\* mutant: an entry is kept until it is older than the window
CleanOldInclusive(timestamps, current_time) ==
  SelectSeq(timestamps, LAMBDA timestamp : current_time - timestamp <= 60)

\* [timestamp for timestamp in ... if current_time - timestamp < 60]
CleanOld(timestamps, current_time) ==
  SelectSeq(timestamps, LAMBDA timestamp : current_time - timestamp < 60)

\* rate_limit_check: raised is the HTTPException with status 429
RateLimitCheck(storage, client_ip, current_time) ==
  LET key == IF client_ip = None THEN "unknown" ELSE client_ip
      kept == CleanOld(IF key \in DOMAIN storage THEN storage[key] ELSE <<>>,
                       current_time)
  IN
  IF Len(kept) >= RATE_LIMIT_PER_MINUTE
  THEN [raised |-> TRUE, key |-> key, storage |-> (key :> kept) @@ storage]
  ELSE [raised |-> FALSE, key |-> key,
        storage |-> (key :> Append(kept, current_time)) @@ storage]

\* the request's section under rate_limit_lock: the limiter takes the state
\* r.storage and an admitted request enters the history
RateCall(op, r, current_time, response) ==
  /\ rate_limit_storage' = r.storage
  /\ admitted' =
       IF r.raised THEN admitted
       ELSE (r.key :> Append(IF r.key \in DOMAIN admitted THEN admitted[r.key] ELSE <<>>,
                             current_time)) @@ admitted
  /\ rate_ret' = [op |-> op, client_ip |-> r.key, current_time |-> current_time,
                  checked |-> TRUE, raised |-> r.raised] @@ response
  /\ UNCHANGED <<agentVars, demoVars, validation, sessionVars, meetingVars>>

\* an endpoint's call of rate_limit_check(client_ip); the HTTPException is
\* the endpoint's response
rate_limit_check(client_ip) ==
  LET current_time == now * (60 \div 2)
      r == RateLimitCheck(rate_limit_storage, client_ip, current_time)
  IN
  /\ RateCall("rate_limit_check", r, current_time,
              IF r.raised THEN [status |-> 429] ELSE <<>>)
  /\ UNCHANGED status_pending

\* GET /status up to its call of rate_limit_check; the handler turns every
\* exception, that of the rate limit too, into a response with status 500
get_status(client_ip) ==
  LET current_time == now * (60 \div 2)
      r == RateLimitCheck(rate_limit_storage, client_ip, current_time)
  IN
  /\ client_ip \notin status_pending
  /\ RateCall("get_status", r, current_time,
              IF r.raised THEN [status |-> 500] ELSE <<>>)
  /\ status_pending' = IF r.raised THEN status_pending ELSE status_pending \cup {client_ip}

\* GET /status from its second section under rate_limit_lock on: the
\* client's entries are cleaned at the time of this section and counted
get_status_remaining(client_ip) ==
  LET current_time == now * (60 \div 2)
      kept == CleanOld(rate_limit_storage[client_ip], current_time)
  IN
  /\ client_ip \in status_pending
  /\ status_pending' = status_pending \ {client_ip}
  /\ rate_limit_storage' =
       IF client_ip \in DOMAIN rate_limit_storage
       THEN (client_ip :> kept) @@ rate_limit_storage
       ELSE rate_limit_storage
  /\ rate_ret' = [op |-> "get_status", client_ip |-> client_ip,
                  current_time |-> current_time, checked |-> FALSE, raised |-> FALSE,
                  status |-> 200,
                  rate_limit_remaining |->
                    IF client_ip \in DOMAIN rate_limit_storage
                    THEN RATE_LIMIT_PER_MINUTE - Len(kept) ELSE -1]
  /\ UNCHANGED <<agentVars, demoVars, validation, sessionVars, meetingVars, admitted>>

\* requests of two clients, one of them without an address, over time; the
\* locked sections of different requests come in any order
NextRate ==
  \/ Tick
  \/ \E client_ip \in {"10.0.0.1", None} : rate_limit_check(client_ip)
  \/ \E client_ip \in {"10.0.0.1", "unknown"} : get_status(client_ip)
  \/ \E client_ip \in {"10.0.0.1", "unknown"} : get_status_remaining(client_ip)

SpecRate == Init /\ [][NextRate]_vars

----------------------------------------------------------------------------
(* Vocabulary of the properties *)

StepReturned == pc = "idle" /\ ret.op = "step"
RunReturned == pc = "idle" /\ ret.op = "run"
InRun == ret.op \in {"running", "run"}

HasStop(calls) == \E k \in 1..Len(calls) : calls[k].name = "stop"

\* index of the first termination token of a turn
StopIndex(calls) == CHOOSE k \in 1..Len(calls) :
                      calls[k].name = "stop" /\ \A j \in 1..(k - 1) : calls[j].name # "stop"

LastAction(actions) == actions[Len(actions)].action

CountAction(actions, a) == Cardinality({k \in 1..Len(actions) : actions[k].action = a})

\* the tool calls of the latest turn that reached the inherited executor
TurnCalls == SubSeq(executor_calls, turn_start + 1, Len(executor_calls))

OkCalls == {k \in 1..Len(executor_calls) : executor_calls[k].ok}

ObjectiveCount(msgs, instruction) ==
  Cardinality({k \in 1..Len(msgs) : msgs[k].content = ObjectiveText(instruction)})

IsPrefix(a, b) == Len(a) <= Len(b) /\ SubSeq(b, 1, Len(a)) = a

----------------------------------------------------------------------------
(* C1: a run makes at most max_iterations Oracle calls; a run whose loop   *)
(* went through max_iterations turns, none proposing the termination token *)
(* and none faulting, returns a list whose last outcome is "timeout", with *)
(* completed = false.                                                      *)
C1_IterationCap ==
  /\ InRun => oracle_calls <= max_iterations
  /\ (RunReturned /\ oracle_calls >= max_iterations /\ ~ret.fault /\ ~HasStop(tool_calls))
       => /\ tracked_actions # <<>>
          /\ LastAction(tracked_actions) = "timeout"
          /\ tracked_actions[Len(tracked_actions)].completed = FALSE
          /\ ret.value.completed = FALSE

C1_Witness ==
  /\ RunReturned /\ oracle_calls = max_iterations /\ ~ret.fault
  /\ tool_calls = <<Click>>
  /\ LastAction(tracked_actions) = "timeout"
  /\ Len(tracked_actions) > max_iterations

(* C2: when the loop meets the termination token as action i of the n      *)
(* proposals of a turn, exactly actions 1..i-1 of that turn have gone to   *)
(* the executor, in order; stop itself and actions i+1..n never do; the    *)
(* loop makes no further Oracle call; and the run returns completed = true *)
(* with one outcome per executed action and nothing after them.            *)
C2_StopEndsTurnAndRun ==
  (InRun /\ ~ret.fault /\ HasStop(tool_calls)) =>
    LET i == StopIndex(tool_calls) IN
    /\ Len(TurnCalls) = i - 1
    /\ \A k \in 1..(i - 1) : TurnCalls[k] = [call |-> tool_calls[k], ok |-> TRUE]
    /\ \A k \in 1..Len(executor_calls) : executor_calls[k].call.name # "stop"
    /\ pc = "loop" => ~(\E inp \in FreeInputs \cup CapInputs \cup {KeepGoingInput} : ENABLED Turn(inp))
    /\ pc = "idle" =>
         /\ ret.value.completed = TRUE
         /\ Len(tracked_actions) = Len(executor_calls)
         /\ \A k \in 1..(i - 1) :
              LET o == tracked_actions[turn_start + k] IN
              /\ o.action = tool_calls[k].name
              /\ o.parameters = tool_calls[k].parameters

C2_Witness ==
  /\ RunReturned /\ ~ret.fault
  /\ tool_calls = <<Click, Stop, TypeText>>
  /\ ret.value.completed = TRUE
  /\ Len(tracked_actions) = 1 /\ tracked_actions[1].action = "click"

(* C3: a run that ends without a fault and without a turn proposing the    *)
(* termination token has gone on after every turn, empty ones included: it *)
(* has made max_iterations Oracle calls and its last outcome is "timeout", *)
(* with completed = false.                                                 *)
C3_EmptyTurnContinues ==
  (RunReturned /\ ~ret.fault /\ ~HasStop(tool_calls)) =>
    /\ oracle_calls = max_iterations
    /\ tracked_actions # <<>>
    /\ LastAction(tracked_actions) = "timeout"
    /\ ret.value.completed = FALSE

(* C4: a returned run left the loop in exactly one of three ways:          *)
(* completed = true, last outcome "timeout", or last outcome "error"; so   *)
(* POST /act never reports completion_reason "unknown".                    *)
C4_ThreeExits ==
  RunReturned =>
    LET c == ret.value.completed
        t == tracked_actions # <<>> /\ LastAction(tracked_actions) = "timeout"
        e == tracked_actions # <<>> /\ LastAction(tracked_actions) = "error"
    IN  /\ c \/ t \/ e
        /\ ~(c /\ t) /\ ~(c /\ e) /\ ~(t /\ e)
        /\ ret.value.completion_reason # "unknown"

(* C5: whenever no run is in progress, call_function is the executor that  *)
(* was in place before the run (the inherited one, with no tracking        *)
(* wrapper); during a run exactly one wrapper is installed; and every tool *)
(* call of a run that the executor answered is recorded exactly once.      *)
C5_ExecutorRestored ==
  /\ pc = "idle" => call_function = original_call_function /\ call_function = 0
  /\ pc = "loop" => call_function = 1 /\ original_call_function = 0
  /\ InRun =>
       /\ Len(tracked_actions) - CountAction(tracked_actions, "timeout")
            - CountAction(tracked_actions, "error") = Cardinality(OkCalls)
       /\ \A k \in OkCalls : tracked_actions[k].action = executor_calls[k].call.name

\* a second run on the same agent that ends on the error path after a tool call
C5_Witness ==
  /\ RunReturned /\ ret.fault
  /\ executor_calls # <<>> /\ ~executor_calls[Len(executor_calls)].ok
  /\ ObjectiveCount(messages, ret.instruction) >= 2
  /\ call_function = 0

(* C6: execute_single_step never raises: it returns an outcome with        *)
(* action, parameters, result, completed and timestamp, and when the       *)
(* Oracle or the executor faulted the outcome has action "error" and       *)
(* completed = false.                                                      *)
C6_SingleStepNeverRaises ==
  ret.op = "step" =>
    /\ ~ret.raised
    /\ {"action", "parameters", "result", "completed", "timestamp"} \subseteq DOMAIN ret.value
    /\ ret.fault => ret.value.action = "error" /\ ret.value.completed = FALSE

C6_Witness ==
  /\ StepReturned /\ ret.fault /\ ~ret.raised
  /\ executor_calls # <<>>
  /\ ret.value.action = "error"
  /\ ret.value.result = <<"Error: ">> \o ExecutorError

(* C7: a single step whose first proposal is the termination token calls   *)
(* no executor, appends nothing to the conversation but the objective and  *)
(* the rationale, and returns action "stop" with completed = true.         *)
C7_SingleStepStop ==
  [][(pc = "idle" /\ ret'.op = "step" /\ ~ret'.fault
        /\ tool_calls' # <<>> /\ tool_calls'[1].name = "stop") =>
       /\ executor_calls' = <<>>
       /\ tracked_actions' = tracked_actions
       /\ IsPrefix(messages, messages')
       /\ \A k \in (Len(messages) + 1)..Len(messages') :
            messages'[k].content[1] \in {"OBJECTIVE: ", "THOUGHT: "}
       /\ ret'.value.action = "stop"
       /\ ret'.value.completed = TRUE]_vars

C7_Witness ==
  /\ StepReturned /\ tool_calls # <<>> /\ tool_calls[1] = Stop
  /\ ret.value.action = "stop" /\ ret.value.completed = TRUE
  /\ executor_calls = <<>>

(* C8: a single step sends at most one tool call to the executor, the      *)
(* first proposal; its outcome is that of the first proposal whatever      *)
(* follows it in the turn, a later termination token included.             *)
C8_OnlyFirstProposal ==
  ret.op = "step" =>
    /\ Len(executor_calls) <= 1
    /\ \A k \in 1..Len(executor_calls) : executor_calls[k].call = tool_calls[1]
    /\ (~ret.fault /\ tool_calls # <<>> /\ tool_calls[1].name # "stop") =>
         /\ Len(executor_calls) = 1
         /\ ret.value.action = tool_calls[1].name
         /\ ret.value.parameters = tool_calls[1].parameters
         /\ ret.value.completed = FALSE

C8_Witness ==
  /\ StepReturned /\ ~ret.fault
  /\ tool_calls = <<Click, Stop>>
  /\ ret.value.action = "click" /\ ret.value.completed = FALSE
  /\ Len(executor_calls) = 1

(* C9: a single step that directly follows a single step with the same     *)
(* instruction adds no second objective message for it.                    *)
C9_NoSecondObjective ==
  [][(ret.op = "step" /\ ret'.op = "step" /\ ret'.instruction = ret.instruction) =>
       ObjectiveCount(messages', ret.instruction) = ObjectiveCount(messages, ret.instruction)]_vars

(* C10: a fault inside the loop ends the run in that step: the outcomes    *)
(* recorded so far stay as they are, one "error" outcome is appended as    *)
(* the last entry, the faulting call is the last call made, and the run    *)
(* returns completed = false.                                              *)
C10_FaultEndsRun ==
  [][(pc = "loop" /\ ret'.fault) =>
       /\ pc' = "idle"
       /\ IsPrefix(tracked_actions, tracked_actions')
       /\ LastAction(tracked_actions') = "error"
       /\ CountAction(tracked_actions', "error") = 1
       /\ Len(tracked_actions') = Cardinality({k \in 1..Len(executor_calls') : executor_calls'[k].ok}) + 1
       /\ \A k \in 1..(Len(executor_calls') - 1) : executor_calls'[k].ok
       /\ oracle_calls' = oracle_calls + 1
       /\ ret'.value.completed = FALSE]_vars

C10_Witness ==
  /\ RunReturned /\ ret.fault
  /\ Len(tracked_actions) = 3
  /\ tracked_actions[1].action = "click" /\ tracked_actions[2].action = "type"
  /\ LastAction(tracked_actions) = "error"
  /\ ret.value.completed = FALSE

(* C20: every outcome of the list a run returns, an executed action's as   *)
(* well as the synthetic "timeout" and "error" entries, has the five keys  *)
(* action, parameters, result, completed and timestamp.                    *)
C20_OutcomeFields ==
  RunReturned =>
    \A k \in 1..Len(tracked_actions) :
      {"action", "parameters", "result", "completed", "timestamp"}
        \subseteq DOMAIN tracked_actions[k]

----------------------------------------------------------------------------
(* Vocabulary of the workflow properties *)

\* the log entries of the current or latest run_full_demo call
RunEntries == SubSeq(execution_log, workflow.base + 1, Len(execution_log))

IsSummary(v) == "completion_rate" \in DOMAIN v

\* run_full_demo has just returned its summary
DemoReturned ==
  workflow.pc = "idle" /\ demo_ret.op = "run_full_demo" /\ IsSummary(demo_ret.value)

StepIndex(steps, step_name) == CHOOSE k \in 1..Len(steps) : steps[k] = step_name

EntriesOf(entries, step_name) == SelectSeq(entries, LAMBDA e : e.step = step_name)

\* the step used up its attempts: max_retries entries, all of them failures
Exhausted(entries, step_name) ==
  LET es == EntriesOf(entries, step_name) IN
  Len(es) = MAX_RETRIES_PER_STEP /\ \A a \in 1..Len(es) : ~es[a].success

CountStep(steps, step_name) == Cardinality({k \in 1..Len(steps) : steps[k] = step_name})

\* keyword[j] is text[i + j - 1] or its lower-case form, for each j
OccursAt(keyword, text, i) ==
  \A j \in 1..Len(keyword) :
    \/ text[i + j - 1] = keyword[j]
    \/ \E k \in 1..Len(UpperCase) :
         text[i + j - 1] = UpperCase[k] /\ keyword[j] = LowerCase[k]

\* some keyword of the list occurs in the text, letter case aside
KeywordOccurs(keywords, text) ==
  \E n \in 1..Len(keywords) :
    \E i \in 1..(Len(text) - Len(keywords[n]) + 1) : OccursAt(keywords[n], text, i)

----------------------------------------------------------------------------
(* C11: when a step of a run has failed on each of its max_retries         *)
(* attempts, the run is over and no later step was attempted: the run's    *)
(* log entries are those of the earlier steps followed by the max_retries  *)
(* failure entries of the failed step; and at the return of run_full_demo  *)
(* the failed step is not among the completed steps and the summary says   *)
(* success = false.                                                        *)
C11_ExhaustionAborts ==
  \A k \in 1..Len(workflow.demo_steps) :
    LET steps == workflow.demo_steps
        n == Len(RunEntries)
    IN
    Exhausted(RunEntries, steps[k]) =>
      /\ workflow.pc = "idle"
      /\ \A a \in 1..MAX_RETRIES_PER_STEP :
           LET e == RunEntries[n - MAX_RETRIES_PER_STEP + a] IN
           e.step = steps[k] /\ e.attempt = a /\ ~e.success
      /\ \A i \in 1..(n - MAX_RETRIES_PER_STEP) : StepIndex(steps, RunEntries[i].step) < k
      /\ DemoReturned =>
           /\ ~Contains(demo_progress.completed_steps, steps[k])
           /\ demo_ret.value.success = FALSE

\* step 1 succeeds at once, step 2 fails three times: four entries
C11_Witness ==
  /\ DemoReturned
  /\ RunEntries = <<StepLog("run_setup_script", 1, TRUE),
                    StepLog("navigate_to_meet", 1, FALSE),
                    StepLog("navigate_to_meet", 2, FALSE),
                    StepLog("navigate_to_meet", 3, FALSE)>>
  /\ demo_ret.value.success = FALSE
  /\ demo_progress.completed_steps = <<"run_setup_script">>

(* C12: every attempt, whether it succeeds, fails validation or ends in an *)
(* exception, appends exactly one entry to the execution log, the entry of *)
(* the step and attempt in progress, and leaves the earlier entries alone; *)
(* nothing else appends to the log, so its length is the number of         *)
(* attempts made.                                                          *)
C12_OneEntryPerAttempt ==
  [][/\ workflow.pc = "attempt" =>
          /\ Len(execution_log') = Len(execution_log) + 1
          /\ SubSeq(execution_log', 1, Len(execution_log)) = execution_log
          /\ execution_log'[Len(execution_log')].step = workflow.demo_steps[workflow.step]
          /\ execution_log'[Len(execution_log')].attempt = workflow.attempt
     /\ workflow.pc = "idle" =>
          execution_log' = execution_log \/ execution_log' = <<>>]_vars

\* a run in its third attempt of the second step, after a success and two
\* failed attempts
C12_Witness ==
  /\ workflow.pc = "attempt" /\ workflow.step = 2 /\ workflow.attempt = 3
  /\ RunEntries = <<StepLog("run_setup_script", 1, TRUE),
                    StepLog("navigate_to_meet", 1, FALSE),
                    StepLog("navigate_to_meet", 2, FALSE)>>

(* C13: during a run the total step count that is_demo_complete compares   *)
(* against is the number of steps of the step list the run goes through    *)
(* (5 or 8); so when run_full_demo returns after every step of its list    *)
(* succeeded, is_demo_complete holds and the summary says success = true.  *)
C13_TotalMatchesVariant ==
  /\ workflow.pc = "attempt" => demo_progress.total_steps = Len(workflow.demo_steps)
  /\ (DemoReturned /\ \A k \in 1..Len(workflow.demo_steps) :
                         \E i \in 1..Len(RunEntries) :
                           RunEntries[i].step = workflow.demo_steps[k] /\ RunEntries[i].success)
       => /\ is_demo_complete(demo_progress)
          /\ demo_ret.value.success = TRUE

(* C14: a step in which mark_step_completed(name, True) is called leaves   *)
(* name exactly once in the completed steps, however often it was called   *)
(* before; a step in which mark_step_completed(name, False) is called      *)
(* changes neither the completed steps nor the current step index.         *)
C14_MarkIdempotent ==
  [][demo_ret'.op = "mark_step_completed" =>
       IF demo_ret'.success
       THEN CountStep(demo_progress'.completed_steps, demo_ret'.step_name) = 1
       ELSE /\ demo_progress'.completed_steps = demo_progress.completed_steps
            /\ demo_progress'.current_step_index = demo_progress.current_step_index]_vars

(* C15: no step name occurs twice in the completed steps, whatever session *)
(* operations led to the state.                                            *)
C15_NoDuplicates ==
  \A i, j \in 1..Len(demo_progress.completed_steps) :
    i # j => demo_progress.completed_steps[i] # demo_progress.completed_steps[j]

----------------------------------------------------------------------------
(* Vocabulary of the classification properties *)

\* the steps whose validator is one keyword list, and the list of each; a
\* name that is not registered gets the default list
KeywordList(step_name) ==
  IF step_name \in {"navigate_to_meet", "join_meet_call", "start_screen_share",
                    "open_terminal", "open_code_viewer", "open_browser",
                    "wait_for_instructions"}
  THEN Indicators[step_name]
  ELSE Indicators.default

KeywordValidated(step_name) ==
  step_name \notin {"run_setup_script", "clone_repository", "navigate_to_repo"}

CommandSteps == {"clone_repository", "navigate_to_repo"}

CommandFamily(step_name) ==
  IF step_name = "clone_repository" THEN Command.git_clone ELSE Command.cd

FailureMarkers == <<Command.error, Command.not_found>>

(* C16: an attempt whose outcome has completed = true is classified        *)
(* successful, whatever the step name and the result text; an attempt on   *)
(* a keyword-validated step whose outcome has completed = false is         *)
(* classified successful exactly when a keyword of the step's list (the    *)
(* default list for a name that is not registered) occurs in the result    *)
(* text, letter case aside.                                                *)
C16_Classification ==
  validation.applied =>
    LET r == validation.result IN
    /\ Get(r, "completed", FALSE) => validation.success
    /\ (~Get(r, "completed", FALSE) /\ KeywordValidated(validation.step_name)) =>
         (validation.success <=>
            KeywordOccurs(KeywordList(validation.step_name), r.result))

\* "Joined Meeting" matches the join_meet_call keywords only in lower case
C16_Witness ==
  /\ validation.applied
  /\ validation.step_name = "join_meet_call"
  /\ validation.result.completed = FALSE
  /\ validation.result.result = Obs.joined
  /\ validation.success

(* C17: on clone_repository and navigate_to_repo, an outcome with          *)
(* completed = false whose action issues a command (run_command,           *)
(* type_text, send_key) is classified successful only if its parameters    *)
(* hold the expected command (git clone, cd) and its result text holds no  *)
(* failure marker (error, not found).                                      *)
C17_CommandRule ==
  (/\ validation.applied
   /\ validation.step_name \in CommandSteps
   /\ ~Get(validation.result, "completed", FALSE)
   /\ validation.result.action \in {"run_command", "type_text", "send_key"}
   /\ validation.success)
  => /\ In(CommandFamily(validation.step_name), StrDict(validation.result.parameters))
     /\ ~KeywordOccurs(FailureMarkers, validation.result.result)

----------------------------------------------------------------------------
(* Vocabulary of the summary properties *)

\* the summary last returned, by run_full_demo or by get_execution_summary
SummaryReturned ==
  /\ demo_ret.op \in {"run_full_demo", "get_execution_summary"}
  /\ IsSummary(demo_ret.value)

\* |a - b| on integers
Distance(a, b) == IF a >= b THEN a - b ELSE b - a

(* C18: a summary counts both its numbers over the execution log:          *)
(* total_steps is the number of entries, steps_completed the number of     *)
(* successful entries, and completion_rate is their percentage rounded to  *)
(* one decimal (here in tenths of a percent, so within half a tenth of     *)
(* the exact quotient); over an empty log the rate is 0.                   *)
C18_CompletionRate ==
  SummaryReturned =>
    LET v == demo_ret.value
        n == Len(v.execution_log)
        s == SuccessfulSteps(v.execution_log)
    IN /\ v.total_steps = n
       /\ v.steps_completed = s
       /\ n = 0 => v.completion_rate = 0
       /\ n > 0 => 2 * Distance(v.completion_rate * n, 1000 * s) <= n

\* a rate that rounding moves up: 8 of 9 entries successful, 88.9
C18_Witness ==
  /\ SummaryReturned
  /\ demo_ret.value.total_steps = 9
  /\ demo_ret.value.steps_completed = 8
  /\ demo_ret.value.completion_rate = 889

\* the summary of an orchestrator that has logged nothing
C18_WitnessEmpty ==
  /\ SummaryReturned
  /\ demo_ret.value.total_steps = 0
  /\ demo_ret.value.completion_rate = 0

----------------------------------------------------------------------------
(* C21: the conversation is append-only: every step of execute_single_step *)
(* and of run_with_tracking, the steps in which the Oracle or the executor *)
(* faults included, leaves the messages it found in place and at most adds *)
(* messages after them; the only step that shortens the conversation is    *)
(* the reset, and it leaves it empty.                                      *)
C21_ConversationAppendOnly ==
  [][/\ ret'.op \in {"step", "running", "run"} => IsPrefix(messages, messages')
     /\ Len(messages') < Len(messages) => (ret'.op = "reset" /\ messages' = <<>>)]_vars

\* a run that ended on the fault path after a tool call, on a conversation
\* that held messages before the run
C21_Witness ==
  /\ RunReturned /\ ret.fault
  /\ executor_calls # <<>> /\ ~executor_calls[Len(executor_calls)].ok
  /\ Len(messages) >= 4
  /\ messages[1].content[1] = "OBJECTIVE: "
  /\ messages[Len(messages)].content = JsonDumps(executor_calls[Len(executor_calls)].call)

(* C22: once the termination token has been detected in a run, the outcome *)
(* list stays as it is until the run returns: the turn that detects the    *)
(* token appends the outcomes of the actions proposed before it and        *)
(* nothing else, and the end of the run appends no "timeout" outcome, also *)
(* when the token was detected in iteration max_iterations.                *)
C22_NothingAfterStop ==
  [][/\ (pc = "loop" /\ stop_detected) => tracked_actions' = tracked_actions
     /\ (pc = "loop" /\ ~stop_detected /\ stop_detected') =>
          /\ IsPrefix(tracked_actions, tracked_actions')
          /\ Len(tracked_actions') = Len(tracked_actions) + StopIndex(tool_calls') - 1
          /\ ~HasAction(tracked_actions', "timeout")
          /\ ~HasAction(tracked_actions', "error")]_vars

\* the token detected in the last permitted iteration, after a click
C22_Witness ==
  /\ RunReturned /\ ~ret.fault
  /\ oracle_calls = max_iterations
  /\ tool_calls = <<Click, Stop>>
  /\ ret.value.completed = TRUE
  /\ Len(tracked_actions) = max_iterations
  /\ LastAction(tracked_actions) = "click"

----------------------------------------------------------------------------
(* Vocabulary of the execution properties *)

IsObservation(m) == m.content[1] = "OBSERVATION: "

CountObservations(msgs) == Cardinality({k \in 1..Len(msgs) : IsObservation(msgs[k])})

\* the outcomes of a list that stand for an executed action
Executions(actions) ==
  SelectSeq(actions, LAMBDA o : o.action \notin {"timeout", "error"})

\* the executor calls that returned, in call order
Answered(calls) == SelectSeq(calls, LAMBDA c : c.ok)

(* C26: a single step whose first proposal is not the termination token    *)
(* makes exactly one executor call, with that proposal, and returns        *)
(* completed = false; when the executor answers, its observation becomes   *)
(* the last message of the conversation and the outcome carries the        *)
(* proposal and the observation.  A single step in which the Oracle        *)
(* proposes nothing makes no executor call and returns action "none" with  *)
(* completed = false.                                                      *)
C26_SingleStepExecutes ==
  [][(pc = "idle" /\ ret'.op = "step") =>
       /\ (tool_calls' # <<>> /\ tool_calls'[1].name # "stop") =>
            /\ Len(executor_calls') = 1
            /\ executor_calls'[1].call = tool_calls'[1]
            /\ ret'.value.completed = FALSE
            /\ executor_calls'[1].ok =>
                 /\ IsPrefix(messages, messages')
                 /\ CountObservations(messages') = CountObservations(messages) + 1
                 /\ messages'[Len(messages')].content
                      = <<"OBSERVATION: ">> \o ret'.value.result
                 /\ ret'.value.result \in Observations
                 /\ ret'.value.action = tool_calls'[1].name
                 /\ ret'.value.parameters = tool_calls'[1].parameters
            /\ ~executor_calls'[1].ok =>
                 CountObservations(messages') = CountObservations(messages)
       /\ (tool_calls' = <<>> /\ ~ret'.fault) =>
            /\ executor_calls' = <<>>
            /\ CountObservations(messages') = CountObservations(messages)
            /\ ret'.value.action = "none"
            /\ ret'.value.completed = FALSE]_vars

\* a single step that executed a click and got "failed" back
C26_Witness ==
  /\ StepReturned /\ ~ret.fault
  /\ tool_calls # <<>> /\ tool_calls[1] = Click
  /\ executor_calls = <<[call |-> Click, ok |-> TRUE]>>
  /\ ret.value.result = <<"failed">>
  /\ messages[Len(messages)].content = <<"OBSERVATION: ", "failed">>

\* a single step in which the Oracle proposed nothing
C26_WitnessNone ==
  /\ StepReturned /\ ~ret.fault
  /\ tool_calls = <<>>
  /\ ret.value.action = "none"

(* C27: a turn of a run that holds no termination token and in which       *)
(* nothing faults sends all its proposals to the executor, in the proposed *)
(* order, and each of them adds one outcome to the tracked list and one    *)
(* observation to the conversation; and at every moment of a run the       *)
(* tracked list without its "timeout" and "error" entries is the sequence  *)
(* of the executor calls that returned, in call order.                     *)
C27_AllExecutedInOrder ==
  [][/\ (pc = "loop" /\ ret'.op \in {"running", "run"} /\ ~ret'.fault
           /\ iteration_count' = iteration_count + 1 /\ ~HasStop(tool_calls')) =>
          LET n == Len(tool_calls') IN
          /\ Len(executor_calls') = Len(executor_calls) + n
          /\ Len(tracked_actions') = Len(tracked_actions) + n
          /\ IsPrefix(tracked_actions, tracked_actions')
          /\ \A k \in 1..n :
               /\ executor_calls'[Len(executor_calls) + k] = [call |-> tool_calls'[k], ok |-> TRUE]
               /\ tracked_actions'[Len(tracked_actions) + k].action = tool_calls'[k].name
               /\ tracked_actions'[Len(tracked_actions) + k].parameters = tool_calls'[k].parameters
          /\ CountObservations(messages') = CountObservations(messages) + n
     /\ ret'.op \in {"running", "run"} =>
          LET e == Executions(tracked_actions')
              a == Answered(executor_calls')
          IN /\ Len(e) = Len(a)
             /\ \A k \in 1..Len(e) :
                  /\ e[k].action = a[k].call.name
                  /\ e[k].parameters = a[k].call.parameters]_vars

\* a run whose first turn executed three proposals, in order
C27_Witness ==
  /\ InRun /\ ~ret.fault
  /\ tool_calls = <<Click, TypeText, Click>>
  /\ Len(tracked_actions) >= 3
  /\ tracked_actions[1].action = "click"
  /\ tracked_actions[2].action = "type"
  /\ tracked_actions[3].action = "click"
  /\ CountObservations(messages) >= 3

----------------------------------------------------------------------------
(* C28: the execution log of an orchestrator only grows, and the entries   *)
(* it holds stay as they are; among the entries of a run, those of one     *)
(* step carry the attempt numbers 1, 2, 3, ... in log order, none above    *)
(* max_retries, and only the last of them can be a success.                *)
C28_LogAppendOnly ==
  [][/\ demo_ret'.op # "new" => IsPrefix(execution_log, execution_log')
     /\ \A n \in StepNames :
          LET es == EntriesOf(RunEntries', n) IN
          \A a \in 1..Len(es) :
            /\ es[a].attempt = a
            /\ a <= MAX_RETRIES_PER_STEP
            /\ es[a].success => a = Len(es)]_vars

\* the first step succeeded at its third attempt and the second step has
\* been attempted
C28_Witness ==
  /\ Len(RunEntries) >= 4
  /\ SubSeq(RunEntries, 1, 3) = <<[step |-> "run_setup_script", attempt |-> 1, success |-> FALSE],
                                   [step |-> "run_setup_script", attempt |-> 2, success |-> FALSE],
                                   [step |-> "run_setup_script", attempt |-> 3, success |-> TRUE]>>
  /\ RunEntries[4].step = "navigate_to_meet"
  /\ RunEntries[4].attempt = 1

(* C29: a run attempts its steps in the order of its step list: the first  *)
(* entry of the run is an attempt of the first step, the entry after a     *)
(* failed attempt is an attempt of the same step, the entry after a        *)
(* success is an attempt of the next step; and during the run and at its   *)
(* return the completed steps are a prefix of the step list, the steps     *)
(* that have a successful entry.                                           *)
C29_StepsInOrder ==
  [][workflow.pc = "attempt" =>
       LET steps == workflow.demo_steps
           es == RunEntries'
           done == demo_progress'.completed_steps
       IN
       /\ es[1].step = steps[1]
       /\ \A i \in 1..(Len(es) - 1) :
            StepIndex(steps, es[i + 1].step)
              = StepIndex(steps, es[i].step) + (IF es[i].success THEN 1 ELSE 0)
       /\ IsPrefix(demo_progress.completed_steps, steps)
       /\ IsPrefix(done, steps)
       /\ Len(done) = Cardinality({i \in 1..Len(es) : es[i].success})
       /\ \A i \in 1..Len(es) : es[i].success => Contains(done, es[i].step)]_vars

\* a legacy run in its fourth step, the third having needed two attempts
C29_Witness ==
  /\ workflow.pc = "attempt"
  /\ workflow.demo_steps = LegacySteps
  /\ workflow.step = 4
  /\ demo_progress.completed_steps = SubSeq(LegacySteps, 1, 3)
  /\ Len(RunEntries) = 4
  /\ ~RunEntries[3].success

----------------------------------------------------------------------------
(* C23: a step that has used up its retries ends the run when it is        *)
(* critical; when it is not critical and the policy                        *)
(* CONTINUE_ON_NON_CRITICAL_ERRORS is on, the run goes on with the step    *)
(* after it.                                                               *)
C23_CriticalPolicy ==
  \A k \in 1..Len(workflow.demo_steps) :
    Exhausted(RunEntries, workflow.demo_steps[k]) =>
      IF is_critical_step(workflow.demo_steps[k]) \/ ~CONTINUE_ON_NON_CRITICAL_ERRORS
      THEN workflow.pc = "idle" /\ workflow.step = k
      ELSE k < Len(workflow.demo_steps) => workflow.step > k

----------------------------------------------------------------------------
(* C24: an attempt of run_setup_script makes no execute_single_step call,  *)
(* so the Oracle is not consulted, whatever the Oracle would have          *)
(* proposed; given an instruction that holds the repository URL, as the    *)
(* orchestrator's instruction does, it calls run_setup_script once, and    *)
(* it is classified successful exactly when the setup script reports       *)
(* itself ready.                                                           *)
C24_ScriptedStep ==
  (validation.applied /\ validation.step_name = "run_setup_script") =>
    /\ validation.single_steps = 0
    /\ validation.setup_runs = (IF validation.inp.has_url THEN 1 ELSE 0)
    /\ validation.result.action = "setup_script"
    /\ validation.success
         <=> (validation.inp.has_url /\ validation.inp.setup.ready
              /\ ~validation.inp.setup.fault)

\* the script fails while the Oracle would have proposed the termination
\* token: the attempt is a failure
C24_Witness ==
  /\ validation.applied /\ validation.step_name = "run_setup_script"
  /\ validation.inp.has_url
  /\ ~validation.inp.setup.ready
  /\ validation.inp.outcome = StopOutcome
  /\ validation.setup_runs = 1
  /\ ~validation.success

----------------------------------------------------------------------------
(* C30: an agent-driven MeetingService operation that got an outcome       *)
(* without a success key from the agent reports success, whatever the      *)
(* outcome says otherwise, an outcome with action "error" included; and    *)
(* no outcome of execute_single_step has a success key.  After such a      *)
(* join the meeting status is "joined", after such a screen share          *)
(* "screen_sharing".                                                       *)
C30_DefaultSuccess ==
  /\ \A o \in MeetingOutcomes \cup AgentOutcomes : "success" \notin DOMAIN o
  /\ (meeting_ret.op # "init" /\ "agent_result" \in DOMAIN meeting_ret.value
        /\ "success" \notin DOMAIN meeting_ret.value.agent_result) =>
       /\ meeting_ret.value.success = TRUE
       /\ meeting_ret.op = "join_meeting_with_agent" => meeting_status = "joined"
       /\ meeting_ret.op = "start_screen_share_with_agent" => meeting_status = "screen_sharing"

\* the Oracle was unavailable during the screen-share step, and the
\* service is "screen_sharing"
C30_Witness ==
  /\ meeting_ret.op = "start_screen_share_with_agent"
  /\ meeting_ret.value.success = TRUE
  /\ meeting_ret.value.agent_result.action = "error"
  /\ meeting_status = "screen_sharing"

----------------------------------------------------------------------------
(* C25: a session that was registered and has not been cleaned up is       *)
(* found under its session id: the entry stored there holds the agent,     *)
(* the sandbox and the orchestrator created for it; and a background task  *)
(* drives the orchestrator of its own session only.                        *)
C25_SessionsIsolated ==
  \A r \in DOMAIN tasks :
    /\ session_objects[r].sandbox = "running" =>
         /\ tasks[r].session_id \in DOMAIN demo_sessions
         /\ demo_sessions[tasks[r].session_id].object = r
    /\ tasks[r].orchestrator \in {None, r}

----------------------------------------------------------------------------
(* C31: an attempt whose outcome of execute_single_step is a captured      *)
(* fault (action "error") or no decision (action "none") is not classified *)
(* as successful, whatever the text of the fault.                          *)
C31_FaultNeverSuccess ==
  (validation.applied /\ validation.result.action \in {"error", "none"})
    => ~validation.success

----------------------------------------------------------------------------
(* C32: run_full_demo does not raise.  When the session initialisation     *)
(* rejects the URLs the call returns at once: no step is attempted, the    *)
(* execution log gains no entry (an empty log stays empty), the progress   *)
(* is the one before the call, and the value returned has success false,   *)
(* the error text and the log.                                             *)
C32_RejectedRunReturns ==
  [][(/\ workflow.pc = "idle"
      /\ workflow'.pc = "idle"
      /\ demo_ret'.op = "run_full_demo"
      /\ demo_ret' # demo_ret)
     => /\ execution_log' = execution_log
        /\ demo_progress' = demo_progress
        /\ demo_ret'.value.success = FALSE
        /\ demo_ret'.value.error = "Invalid GitHub URL or Meet link provided"
        /\ demo_ret'.value.execution_log = execution_log
        /\ workflow'.step = 0]_vars

\* a rejected run has returned on an agent whose progress held a completed
\* step, and on an orchestrator that had logged nothing
C32_Witness ==
  /\ workflow.pc = "idle"
  /\ demo_ret.op = "run_full_demo"
  /\ "error" \in DOMAIN demo_ret.value
  /\ demo_ret.value.execution_log = <<>>
  /\ execution_log = <<>>
  /\ demo_progress.completed_steps # <<>>

----------------------------------------------------------------------------
(* C33: the status of the session progress is one of initialized, running, *)
(* completed, failed, terminated; and when run_full_demo has returned its  *)
(* summary the status is not "running" any more: "completed" when every    *)
(* entry of the run is a success, "failed" when a step used up its         *)
(* attempts.                                                               *)
C33_StatusSettled ==
  /\ demo_progress.status \in
       {"initialized", "running", "completed", "failed", "terminated"}
  /\ DemoReturned =>
       /\ demo_progress.status # "running"
       /\ (\A k \in 1..Len(RunEntries) : RunEntries[k].success)
            => demo_progress.status = "completed"
       /\ (\E k \in 1..Len(workflow.demo_steps) :
             Exhausted(RunEntries, workflow.demo_steps[k]))
            => demo_progress.status = "failed"

----------------------------------------------------------------------------
(* C34: in every state of a session, current_step_index is the number of   *)
(* entries of the completed steps, also right after the scripted setup     *)
(* step recorded its own completion.                                       *)
C34_IndexIsCount ==
  demo_progress.current_step_index = Len(demo_progress.completed_steps)

----------------------------------------------------------------------------
(* C35: the summary run_full_demo returns counts the attempts of that run  *)
(* only: its execution_log, total_steps and steps_completed hold no entry  *)
(* logged before the call, also when the orchestrator ran before.          *)
C35_SummaryOfThisRun ==
  DemoReturned =>
    /\ demo_ret.value.execution_log = RunEntries
    /\ demo_ret.value.total_steps = Len(RunEntries)
    /\ demo_ret.value.steps_completed = SuccessfulSteps(RunEntries)

----------------------------------------------------------------------------
(* C37: complete_meeting_setup_with_commands returns success true and the  *)
(* final status "active" only when none of its steps failed, that is, when *)
(* its errors list is empty.                                               *)
C37_SuccessMeansNoErrors ==
  meeting_ret.op = "complete_meeting_setup_with_commands" =>
    ((meeting_ret.value.success \/ meeting_ret.value.final_status = "active")
       => meeting_ret.value.errors = <<>>)

----------------------------------------------------------------------------
(* C36: the service keeps the order navigate, join, share.  The Meet URL   *)
(* is set only by a navigation with a URL of the meeting pattern;          *)
(* join_meeting_with_agent called while no URL is set fails without        *)
(* calling the agent; start_screen_share_with_agent called while the       *)
(* status is not "joined" fails without calling the agent; and the status  *)
(* becomes "screen_sharing" only from "joined".  A value returned holds    *)
(* agent_result exactly when the agent was called.                         *)
C36_OrderEnforced ==
  /\ [](current_meet_url # None => MatchesMeetPattern(current_meet_url))
  /\ [][
     /\ current_meet_url' # current_meet_url =>
          meeting_ret'.op \in {"navigate_to_meet_with_agent",
                               "complete_meeting_setup_with_commands"}
     /\ (meeting_ret'.op = "join_meeting_with_agent" /\ current_meet_url = None) =>
          /\ ~meeting_ret'.value.success
          /\ "agent_result" \notin DOMAIN meeting_ret'.value
          /\ meeting_status' = meeting_status
     /\ (meeting_ret'.op = "start_screen_share_with_agent"
           /\ meeting_status # "joined") =>
          /\ ~meeting_ret'.value.success
          /\ "agent_result" \notin DOMAIN meeting_ret'.value
          /\ meeting_status' = meeting_status
     /\ (meeting_status' = "screen_sharing" /\ meeting_status # "screen_sharing") =>
          /\ meeting_status = "joined"
          /\ meeting_ret'.op = "start_screen_share_with_agent"]_vars

\* after a navigation, a screen share asked for before the join was refused
C36_Witness ==
  /\ meeting_ret.op = "start_screen_share_with_agent"
  /\ ~meeting_ret.value.success
  /\ "agent_result" \notin DOMAIN meeting_ret.value
  /\ current_meet_url # None
  /\ meeting_status = "not_started"

\* the three operations succeeded in their order
C36_WitnessShared ==
  /\ meeting_ret.op = "start_screen_share_with_agent"
  /\ meeting_ret.value.success
  /\ current_meet_url # None
  /\ meeting_status = "screen_sharing"

----------------------------------------------------------------------------
\* the task methods of the setup script in the order of run_full_setup
SetupMethods ==
  <<"open_terminal", "clone_repository", "navigate_to_repository",
    "open_code_viewer", "open_browser_to_meet">>

\* the names under which the tasks are listed
SetupTaskNames ==
  <<"open_terminal", "clone_repository", "navigate_to_repo", "open_code_viewer",
    "open_browser">>

(* C38: run_full_setup calls its five task methods in their fixed order,   *)
(* whatever the earlier ones returned; each task is in exactly one of      *)
(* completed_tasks and failed_tasks; ready_for_agent is true exactly when  *)
(* no task other than open_code_viewer failed; and run_setup_script adds   *)
(* "run_setup_script" to the completed steps exactly when ready_for_agent  *)
(* is true.                                                                *)
C38_SetupAggregation ==
  (validation.applied /\ "setup_results" \in DOMAIN validation) =>
    LET r == validation.setup_results IN
    /\ r.attempted = SetupMethods
    /\ \A k \in 1..Len(SetupTaskNames) :
         /\ CountStep(r.completed_tasks, SetupTaskNames[k])
              + CountStep(r.failed_tasks, SetupTaskNames[k]) = 1
         /\ Contains(r.completed_tasks, SetupTaskNames[k])
              <=> validation.task_ok[SetupMethods[k]]
    /\ r.ready_for_agent <=>
         \A k \in 1..Len(r.failed_tasks) : r.failed_tasks[k] = "open_code_viewer"
    /\ ~validation.fault =>
         demo_progress.completed_steps =
           IF r.ready_for_agent
           THEN Append(validation.before.completed_steps, "run_setup_script")
           ELSE validation.before.completed_steps

\* the setup ran with the clone succeeding and only the code viewer
\* failing: the environment is ready and the step recorded
C38_Witness ==
  /\ validation.applied
  /\ "setup_results" \in DOMAIN validation
  /\ ~validation.fault
  /\ validation.setup_results.failed_tasks = <<"open_code_viewer">>
  /\ validation.setup_results.ready_for_agent
  /\ demo_progress.completed_steps = <<"run_setup_script">>

\* the first task failed and the later ones were still attempted
C38_WitnessFailed ==
  /\ validation.applied
  /\ "setup_results" \in DOMAIN validation
  /\ ~validation.fault
  /\ validation.setup_results.failed_tasks = <<"open_terminal">>
  /\ Len(validation.setup_results.completed_tasks) = 4
  /\ ~validation.setup_results.ready_for_agent
  /\ demo_progress.completed_steps = <<>>

----------------------------------------------------------------------------
\* a holds the last entries of b
IsSuffix(a, b) ==
  Len(a) <= Len(b) /\ a = SubSeq(b, Len(b) - Len(a) + 1, Len(b))

\* how many of the times lie in the 60 seconds from w on
InWindow(times, w) ==
  Cardinality({k \in 1..Len(times) : w <= times[k] /\ times[k] < w + 60})

\* how many of the client's admitted requests are less than 60 seconds old
\* at time t
Recent(client, t) ==
  IF client \in DOMAIN admitted
  THEN Cardinality({k \in 1..Len(admitted[client]) : t - admitted[client][k] < 60})
  ELSE 0

(* C39: of one client, at most RATE_LIMIT_PER_MINUTE requests are admitted *)
(* within any window of 60 seconds; what the limiter keeps of a client are *)
(* its latest admitted requests, so a refused request is not recorded; a   *)
(* step changes nothing of the other clients; and a request is refused     *)
(* exactly when the caller's own admitted requests of the last 60 seconds  *)
(* reach the limit.                                                        *)
C39_RateLimit ==
  /\ [](\A c \in DOMAIN admitted : \A w \in 0..(now * (60 \div 2)) :
          InWindow(admitted[c], w) <= RATE_LIMIT_PER_MINUTE)
  /\ [](\A c \in DOMAIN rate_limit_storage :
          /\ c \in DOMAIN admitted => IsSuffix(rate_limit_storage[c], admitted[c])
          /\ c \notin DOMAIN admitted => rate_limit_storage[c] = <<>>)
  /\ [][rateVars' # rateVars =>
         LET c == rate_ret'.client_ip
             t == rate_ret'.current_time
         IN
         /\ rate_ret'.checked =>
              (rate_ret'.raised <=> Recent(c, t) >= RATE_LIMIT_PER_MINUTE)
         /\ rate_ret'.raised \/ ~rate_ret'.checked => admitted' = admitted
         /\ \A d \in DOMAIN rate_limit_storage \ {c} :
              rate_limit_storage'[d] = rate_limit_storage[d]
         /\ \A d \in DOMAIN admitted \ {c} : admitted'[d] = admitted[d]]_vars

\* a client at its limit was refused while the other client had allowance
\* left and had been admitted; a GET /status of the other client was
\* between its sections
C39_Witness ==
  /\ rate_ret.op = "rate_limit_check"
  /\ rate_ret.raised
  /\ rate_ret.client_ip = "10.0.0.1"
  /\ Len(admitted["10.0.0.1"]) = RATE_LIMIT_PER_MINUTE
  /\ "unknown" \in status_pending
  /\ Len(admitted["unknown"]) = 1

\* a client was admitted again once its earlier requests were 60 seconds old
C39_WitnessExpired ==
  /\ rate_ret.op = "rate_limit_check"
  /\ ~rate_ret.raised
  /\ Len(admitted[rate_ret.client_ip]) > RATE_LIMIT_PER_MINUTE

====
